---- MODULE Spec2Model ----
(***************************************************************************)
(* mnt-gdrive: a FUSE file system over a remote drive.                     *)
(*                                                                         *)
(* The module models                                                       *)
(*   - the phantom file layer (internal/phantomfile: PhantomFile, handle,  *)
(*     openFile, fetcher) of one file node, with kernel threads and the    *)
(*     background fetch goroutine as interleaved processes;                *)
(*   - the node cache of main.go (system, node) with the remote drive, its *)
(*     change feed, the change loop and kernel directory operations.       *)
(* Four specifications share the actions: SpecPF (one phantom file, two      *)
(* kernel threads), SpecTree (node cache, change loop, other clients),       *)
(* SpecMount (file and directory requests on a read-only or writeable       *)
(* mount) and SpecRT (create, write, release, open, read).                   *)
(* Each lock of the code is a variable (or a field) that holds its owner;  *)
(* an action is one critical section or one blocking call of a handler.    *)
(***************************************************************************)
EXTENDS Integers, Sequences, FiniteSets, TLC

\* ------------------------------------------------------------------ bounds
\* file requests (open, read, write, flush, release) the kernel sends per behaviour
MaxOps == 4
\* length of the data of a write, size of a read, bytes a failed download wrote
MaxLen == 1
\* directory requests the kernel sends per behaviour
MaxKOps == 2
\* changes other clients make to the drive per behaviour
MaxEnvOps == 1
\* requests of either kind per behaviour of the one-request-at-a-time client
MaxMountOps == 3

\* ------------------------------------------------- constants of the program
\* phantomfile.go: FetchMode (iota) and AccessMode (syscall.O_RDONLY, ...)
ProactiveFetch == 0
FetchAsNeeded == 1
NoFetch == 2
ReadOnly == 0
WriteOnly == 1
ReadWrite == 2
\* main.go: the index before the first one a node gets
firstDynamicIdx == 2

Threads == {"t1", "t2"}
Free == "free"
Bg == "bg"

\* file content: sequences of bytes; 0 is the byte a sparse write fills with
DataBytes == {1, 2}
InitContent == <<2>>

VARIABLES
    \* ---- mount
    readonly,     \* system.readonly
    crashed,      \* the process has terminated (panic in a goroutine or log.Fatal)
    scriptC,      \* the content the kernel writes (an input of the behaviour)
    \* ---- phantom file of one file node
    pfNode,       \* the kernel index of the node whose phantom file is followed (0: none yet)
    pfOf,         \* PhantomFile.of: 0 is nil, else an index into ofs
    handleCount,  \* PhantomFile.handleCount (uint32, written as its int32 bit pattern)
    pfLock,       \* PhantomFile.mu: Free or the thread that holds it
    ofs,          \* every openFile ever constructed (handles keep pointers to them)
    handles,      \* every handle ever issued
    held,         \* every mutex of the process: Free or the thread that holds it
    lprog,        \* the Lock and Unlock calls each thread has still to make
    content,      \* remote content by id (what Download returns, what Upload stores)
    th,           \* kernel threads running handle / open operations
    nOps,         \* number of kernel requests taken so far
    kOps,         \* the number of directory requests the kernel has sent
    \* ---- history (ghost) variables
    opens,        \* number of successful PhantomFile.Open calls
    releases,     \* number of completed PhantomFile.release calls
    remoteCalls,  \* the mutating driver calls invoked so far (create_node, upload, rename, trash)
    wrapped,      \* handleCount was decremented at 0
    \* ---- remote drive
    remote,       \* metadata record by remote id (NoFile: the id does not exist)
    feed,         \* the change feed: every change the remote has published, in order
    pageToken,    \* Gdrive.pageToken: the number of changes of the feed already consumed
    envOps,       \* number of changes other clients have made to the drive
    \* ---- node cache
    nodes,        \* every node object ever constructed, by kernel index
    idMap,        \* system.idMap: set of <<id, index>>
    inodeMap,     \* system.inodeMap: the indices it maps (to the node of that index)
    nextInode,    \* system.nextInode
    known,        \* the nodes the kernel holds a reference to
    kt,           \* kernel threads running directory operations
    cl            \* the change loop goroutine (watchForChanges)

pfVars == <<pfNode, pfOf, handleCount, pfLock, ofs, handles, th, opens, releases, wrapped>>
treeVars == <<remote, feed, pageToken, envOps, nodes, idMap, inodeMap, nextInode, known,
              kt, cl, kOps>>
lockVars == <<held, lprog>>
vars == <<readonly, crashed, scriptC, content, nOps, remoteCalls, pfVars, treeVars, lockVars>>

\* what no step of the phantom file layer changes
PFFrame == UNCHANGED <<lockVars, readonly, scriptC, pfNode, treeVars>>

\* du.ID() of the phantom file that is followed
pfId == nodes[pfNode].id

\* ------------------------------------------------------------ pure helpers
Min(a, b) == IF a < b THEN a ELSE b
Max(a, b) == IF a > b THEN a ELSE b

\* AccessMode.isReadable / isWriteable
isReadable(am) == am = ReadOnly \/ am = ReadWrite
isWriteable(am) == am = WriteOnly \/ am = ReadWrite

\* uint32 arithmetic on the int32 bit pattern: 0 - 1 is 0xFFFFFFFF, written -1
Uint32Inc(x) == x + 1
\* a decrement that is lost
Uint32DecLost(x) == x
Uint32Dec(x) == x - 1
Uint32Positive(x) == x # 0

\* os.File.ReadAt(b, off) with len(b) = size: a short read at end of file
ReadAt(f, off, size) ==
    IF off >= Len(f) THEN <<>> ELSE SubSeq(f, off + 1, Min(off + size, Len(f)))

\* os.File.WriteAt(data, off): the gap past the end is filled with zero bytes
WriteAt(f, off, data) ==
    [i \in 1..Max(Len(f), off + Len(data)) |->
        IF i > off /\ i <= off + Len(data) THEN data[i - off]
        ELSE IF i <= Len(f) THEN f[i] ELSE 0]

\* the first k bytes of f (all of f when it is shorter)
Prefix(f, k) == IF k = 0 \/ f = <<>> THEN <<>> ELSE SubSeq(f, 1, Min(k, Len(f)))

\* os.File.Truncate(size)
TruncateTo(f, size) ==
    [i \in 1..size |-> IF i <= Len(f) THEN f[i] ELSE 0]

\* ------------------------------------------------------------ thread records
Idle == [op |-> "idle", pc |-> "idle", stage |-> "main", h |-> 0, off |-> 0, size |-> 0,
         data |-> <<>>, ferr |-> "nil", flushErr |-> "nil", tres |-> "nil", snap |-> <<>>,
         ret |-> "none", rh |-> 0, rdata |-> <<>>, req |-> <<>>]

\* the record of a thread whose operation op on handle h has returned r (with the
\* new handle hh for Open, the bytes d for Read) and that has not yet replied
Return(op, h, r) == [Idle EXCEPT !.op = op, !.pc = "ret", !.h = h, !.ret = r]
ReturnHandle(r, hh) == [Idle EXCEPT !.op = "Open", !.pc = "ret", !.ret = r, !.rh = hh]
ReturnData(h, r, d) == [Idle EXCEPT !.op = "Read", !.pc = "ret", !.h = h, !.ret = r, !.rdata = d]

Step(t, x) ==
    /\ th' = [th EXCEPT ![t] = x]
    /\ nOps' = IF th[t].op = "idle" THEN nOps + 1 ELSE nOps

\* The kernel threads are interchangeable and an idle one has no state: t2 takes
\* a request only while t1 is busy.
CanStart(t) == /\ th[t].op = "idle"
               /\ t = "t2" => th["t1"].op # "idle"
               /\ nOps < MaxOps

\* the error a fetch() call returns for the stored error
fetchResult(err) == IF err = "Canceled" THEN "nil" ELSE err

\* an openFile whose fetcher is never born done
newOpenFileNotDone(fm) ==
    [tmp |-> <<>>, closed |-> FALSE, unlinked |-> FALSE,
     dirty |-> FALSE, dirtyMu |-> Free,
     done |-> FALSE, err |-> "nil", cancelled |-> FALSE, mu |-> Free,
     bg |-> IF fm = ProactiveFetch THEN "ready" ELSE "none",
     downloads |-> 0]

\* newOpenFile + newFetcher
newOpenFile(fm) ==
    [tmp |-> <<>>, closed |-> FALSE, unlinked |-> FALSE,
     dirty |-> FALSE, dirtyMu |-> Free,
     done |-> (fm = NoFetch), err |-> "nil", cancelled |-> FALSE, mu |-> Free,
     bg |-> IF fm = ProactiveFetch THEN "ready" ELSE "none",
     downloads |-> 0]

\* newHandle; kernel: the handle was returned to the kernel (Truncate keeps its own)
newHandle(of, am, k) == [of |-> of, am |-> am, released |-> FALSE, kernel |-> k, decs |-> 0]

\* xlateAccessMode: acc is flags & O_ACCMODE
xlateAccessMode(acc) ==
    IF acc = 0 THEN ReadOnly ELSE IF acc = 1 THEN WriteOnly ELSE ReadWrite

\* ------------------------------------------------- PhantomFile.Open (locked)
CanOpen == pfLock = Free

OpenFails(tmpOK) == pfOf = 0 /\ ~tmpOK

\* an Open that constructs an openFile without looking at the slot
PfOpenFresh(am, fm, tmpOK, k) ==
    IF ~tmpOK
    THEN UNCHANGED <<pfOf, ofs, handleCount, handles, opens>>
    ELSE /\ ofs' = Append(ofs, newOpenFile(fm))
         /\ pfOf' = Len(ofs) + 1
         /\ handleCount' = Uint32Inc(handleCount)
         /\ handles' = Append(handles, newHandle(pfOf', am, k))
         /\ opens' = opens + 1

PfOpen(am, fm, tmpOK, k) ==
    IF OpenFails(tmpOK)
    THEN UNCHANGED <<pfOf, ofs, handleCount, handles, opens>>
    ELSE /\ ofs' = (IF pfOf = 0 THEN Append(ofs, newOpenFile(fm)) ELSE ofs)
         /\ pfOf' = (IF pfOf = 0 THEN Len(ofs) + 1 ELSE pfOf)
         /\ handleCount' = Uint32Inc(handleCount)
         /\ handles' = Append(handles, newHandle(pfOf', am, k))
         /\ opens' = opens + 1

\* ----------------------------------------------------------------- node.Open
\* the phantom file of file node n can be followed: it is the one already
\* followed, or none is and n's phantom file has issued no handle yet
CanFollow(n) == pfNode = n \/ (pfNode = 0 /\ nodes[n].hc = 0)

\* a flag test that takes every writeable open as a truncating one
OpenTruncateAny(trunc) == TRUE

\* req.Flags&fuse.OpenTruncate != 0
OpenTruncate(trunc) == trunc

\* The thread's record keeps the request (writeable access asked, exclusive flag,
\* node is a directory, truncate flag of a writeable request).
\* A failed PhantomFile.Open returns a nil *handle inside a non-nil interface
\* with an error, so the deferred Release dereferences nil: the fuse server
\* recovers the panic of the handler.
NodeOpen(t, n, acc, trunc, excl, tmpOK) ==
    /\ ~crashed
    /\ UNCHANGED <<lockVars, readonly, scriptC, treeVars>>
    /\ CanStart(t)
    /\ n \in known
    /\ UNCHANGED <<pfLock, content, releases, remoteCalls, wrapped, crashed>>
    /\ LET am == xlateAccessMode(acc)
           Asked(rec) == [rec EXCEPT !.req = <<isWriteable(am), excl, nodes[n].dir,
                                               isWriteable(am) /\ trunc>>] IN
       IF nodes[n].dir
       THEN /\ Step(t, Asked(Return("Open", 0, "OKDir")))
            /\ UNCHANGED <<pfNode, pfOf, ofs, handleCount, handles, opens>>
       ELSE IF excl
       THEN /\ Step(t, Asked(Return("Open", 0, "ENOTSUP")))
            /\ UNCHANGED <<pfNode, pfOf, ofs, handleCount, handles, opens>>
       ELSE IF am # ReadOnly /\ readonly
       THEN /\ Step(t, Asked(Return("Open", 0, "EPERM")))
            /\ UNCHANGED <<pfNode, pfOf, ofs, handleCount, handles, opens>>
       ELSE IF am = ReadOnly
       THEN /\ CanFollow(n)
            /\ pfNode' = n
            /\ CanOpen
            /\ PfOpen(am, ProactiveFetch, tmpOK, TRUE)
            /\ Step(t, Asked(IF OpenFails(tmpOK) THEN Return("Open", 0, "Panic")
                          ELSE ReturnHandle("OK", Len(handles'))))
       ELSE IF OpenTruncate(trunc)
       THEN /\ CanFollow(n)
            /\ pfNode' = n
            /\ CanOpen
            /\ PfOpen(am, NoFetch, tmpOK, TRUE)
            /\ Step(t, Asked(IF OpenFails(tmpOK)
                          THEN [Idle EXCEPT !.op = "Truncate", !.pc = "topen", !.size = 0]
                          ELSE ReturnHandle("OK", Len(handles'))))
       ELSE /\ Step(t, Asked(Return("Open", 0, "EACCES")))
            /\ UNCHANGED <<pfNode, pfOf, ofs, handleCount, handles, opens>>

\* a fetch that tries the download again after one that failed
FetchBeginRetry(o, who) ==
    IF ofs[o].done /\ ofs[o].err # "EDL" THEN ofs[o]
    ELSE IF ofs[o].cancelled
    THEN [ofs[o] EXCEPT !.done = TRUE, !.err = "Canceled"]
    ELSE [ofs[o] EXCEPT !.mu = who, !.downloads = @ + 1]

\* a fetch that does not look at the cancellation token
FetchBeginUncancelled(o, who) ==
    IF ofs[o].done THEN ofs[o]
    ELSE [ofs[o] EXCEPT !.mu = who, !.downloads = @ + 1]

\* ------------------------------------------------------------ fetcher.fetch
\* fetch() by `who` on openFile o, up to the point where it either returns or
\* starts the download: the new openFile record.
FetchBegin(o, who) ==
    IF ofs[o].done THEN ofs[o]
    ELSE IF ofs[o].cancelled
    THEN [ofs[o] EXCEPT !.done = TRUE, !.err = "Canceled"]
    ELSE [ofs[o] EXCEPT !.mu = who, !.downloads = @ + 1]

FetchStartsDownload(o) == ~ofs[o].done /\ ~ofs[o].cancelled

\* the download returns: "ok" wrote the whole content, "err" failed and
\* "cancelled" saw the cancelled token, each after writing k bytes
DownloadOutcomes(o) ==
    {"err"} \cup (IF ofs[o].closed THEN {} ELSE {"ok"})
            \cup (IF ofs[o].cancelled THEN {"cancelled"} ELSE {})

FetchEnd(o, outcome, k) ==
    LET src == content[pfId]
        got == IF outcome = "ok" THEN src ELSE Prefix(src, k)
    IN [ofs[o] EXCEPT
          !.tmp = IF ofs[o].closed THEN @ ELSE WriteAt(@, 0, got),
          !.err = IF outcome = "ok" THEN "nil"
                  ELSE IF outcome = "cancelled" THEN "Canceled" ELSE "EDL",
          !.done = TRUE,
          !.mu = Free]

\* the goroutine started by newFetcher for ProactiveFetch
BgFetch(o) ==
    /\ ~crashed
    /\ PFFrame
    /\ o \in DOMAIN ofs
    /\ ofs[o].bg = "ready"
    /\ ofs[o].mu = Free
    /\ ofs' = [ofs EXCEPT ![o] = [FetchBegin(o, Bg) EXCEPT
                  !.bg = IF FetchStartsDownload(o) THEN "dl" ELSE "none"]]
    /\ UNCHANGED <<pfOf, handleCount, pfLock, handles, content, th, nOps,
                   opens, releases, remoteCalls, wrapped, crashed>>

BgDownload(o, outcome, k) ==
    /\ ~crashed
    /\ PFFrame
    /\ o \in DOMAIN ofs
    /\ ofs[o].bg = "dl"
    /\ outcome \in DownloadOutcomes(o)
    /\ ofs' = [ofs EXCEPT ![o] = [FetchEnd(o, outcome, k) EXCEPT !.bg = "none"]]
    /\ UNCHANGED <<pfOf, handleCount, pfLock, handles, content, th, nOps,
                   opens, releases, remoteCalls, wrapped, crashed>>

\* a thread inside openFile.read / openFile.write: o.fetcher.fetch()
ThFetch(t) ==
    /\ ~crashed
    /\ PFFrame
    /\ th[t].pc = "fetch"
    /\ LET o == handles[th[t].h].of IN
       /\ ofs[o].mu = Free
       /\ ofs' = [ofs EXCEPT ![o] = FetchBegin(o, t)]
       /\ Step(t, IF FetchStartsDownload(o) THEN [th[t] EXCEPT !.pc = "dl"]
                   ELSE [th[t] EXCEPT !.pc = "io", !.ferr = fetchResult(ofs'[o].err)])
    /\ UNCHANGED <<pfOf, handleCount, pfLock, handles, content,
                   opens, releases, remoteCalls, wrapped, crashed>>

ThDownload(t, outcome, k) ==
    /\ ~crashed
    /\ PFFrame
    /\ th[t].pc = "dl"
    /\ LET o == handles[th[t].h].of IN
       /\ outcome \in DownloadOutcomes(o)
       /\ ofs' = [ofs EXCEPT ![o] = FetchEnd(o, outcome, k)]
       /\ Step(t, [th[t] EXCEPT !.pc = "io", !.ferr = fetchResult(ofs'[o].err)])
    /\ UNCHANGED <<pfOf, handleCount, pfLock, handles, content,
                   opens, releases, remoteCalls, wrapped, crashed>>

\* the variables no handle operation's first step changes
HandleFrame == UNCHANGED <<pfOf, handleCount, pfLock, ofs, content,
                           opens, releases, remoteCalls, wrapped, crashed>>

KernelHandle(h) == h \in DOMAIN handles /\ handles[h].kernel

\* handle.isReleased
isReleased(h) == handles[h].released

\* ------------------------------------------------------------- handle.Read
HandleRead(t, h, off, size) ==
    /\ ~crashed
    /\ PFFrame
    /\ CanStart(t)
    /\ KernelHandle(h)
    /\ Step(t, IF isReleased(h) THEN Return("Read", h, "ESTALE")
                ELSE IF ~isReadable(handles[h].am) THEN Return("Read", h, "EPERM")
                ELSE [Idle EXCEPT !.op = "Read", !.pc = "fetch", !.h = h,
                                  !.off = off, !.size = size])
    /\ UNCHANGED handles
    /\ HandleFrame

\* openFile.read after the fetch: ReadAt of the temp file (EOF is no error)
ReadIO(t) ==
    /\ ~crashed
    /\ PFFrame
    /\ th[t].op = "Read"
    /\ th[t].pc = "io"
    /\ LET o == handles[th[t].h].of IN
       Step(t, IF th[t].ferr # "nil" \/ ofs[o].closed THEN Return("Read", th[t].h, "EIO")
                ELSE ReturnData(th[t].h, "OK", ReadAt(ofs[o].tmp, th[t].off, th[t].size)))
    /\ UNCHANGED handles
    /\ HandleFrame

\* ------------------------------------------------------------ handle.Write
HandleWrite(t, h, off, data) ==
    /\ ~crashed
    /\ PFFrame
    /\ CanStart(t)
    /\ KernelHandle(h)
    /\ Step(t, IF isReleased(h) THEN Return("Write", h, "ESTALE")
                ELSE IF ~isWriteable(handles[h].am) THEN Return("Write", h, "EPERM")
                ELSE [Idle EXCEPT !.op = "Write", !.pc = "fetch", !.h = h,
                                  !.off = off, !.data = data])
    /\ UNCHANGED handles
    /\ HandleFrame

\* openFile.write after the fetch: WriteAt of the temp file
WriteIO(t) ==
    /\ ~crashed
    /\ PFFrame
    /\ th[t].op = "Write"
    /\ th[t].pc = "io"
    /\ LET o == handles[th[t].h].of
           bad == th[t].ferr # "nil" \/ ofs[o].closed
       IN /\ Step(t, IF bad THEN Return("Write", th[t].h, "EIO") ELSE [th[t] EXCEPT !.pc = "dirty"])
          /\ ofs' = IF bad THEN ofs
                    ELSE [ofs EXCEPT ![o].tmp = WriteAt(@, th[t].off, th[t].data)]
    /\ UNCHANGED <<pfOf, handleCount, pfLock, handles, content,
                   opens, releases, remoteCalls, wrapped, crashed>>

\* openFile.markDirty, from write and from truncate
MarkDirty(t) ==
    /\ ~crashed
    /\ PFFrame
    /\ th[t].pc = "dirty"
    /\ LET o == handles[th[t].h].of IN
       /\ ofs[o].dirtyMu = Free
       /\ ofs' = [ofs EXCEPT ![o].dirty = TRUE]
       /\ Step(t, IF th[t].op = "Write" THEN Return("Write", th[t].h, "OK")
                   ELSE IF th[t].tres # "nil"
                   THEN [th[t] EXCEPT !.stage = "defer", !.pc = "cas"]
                   ELSE [th[t] EXCEPT !.pc = "fcheck"])
    /\ UNCHANGED <<pfOf, handleCount, pfLock, handles, content,
                   opens, releases, remoteCalls, wrapped, crashed>>

\* ------------------------------------------------------------ handle.Flush
\* a Flush that does not look at the access mode
FlushCheckAnyMode(h) == IF isReleased(h) THEN "ESTALE" ELSE "flush"

FlushCheck(h) ==
    IF isReleased(h) THEN "ESTALE"
    ELSE IF ~isWriteable(handles[h].am) THEN "nil"
    ELSE "flush"

HandleFlush(t, h) ==
    /\ ~crashed
    /\ PFFrame
    /\ CanStart(t)
    /\ KernelHandle(h)
    /\ Step(t, IF FlushCheck(h) = "flush"
                THEN [Idle EXCEPT !.op = "Flush", !.pc = "flush", !.h = h]
                ELSE Return("Flush", h, IF FlushCheck(h) = "nil" THEN "OK" ELSE FlushCheck(h)))
    /\ UNCHANGED handles
    /\ HandleFrame

\* where a thread goes when openFile.flush has returned r
AfterFlush(rec, r) ==
    IF rec.op = "Flush" THEN Return("Flush", rec.h, IF r = "nil" THEN "OK" ELSE r)
    ELSE IF rec.op = "Truncate" /\ rec.stage = "main"
    THEN [rec EXCEPT !.tres = r, !.stage = "defer", !.pc = "cas", !.snap = <<>>]
    ELSE [rec EXCEPT !.flushErr = r, !.pc = "pfrel", !.snap = <<>>]

\* openFile.flush: takes the dirty lock; not dirty is a no-op, else Upload starts
\* (Seek of the temp file, which fails on a closed file before the remote is called)
OfFlush(t) ==
    /\ ~crashed
    /\ PFFrame
    /\ th[t].pc = "flush"
    /\ LET o == handles[th[t].h].of IN
       /\ ofs[o].dirtyMu = Free
       /\ IF ~ofs[o].dirty
          THEN /\ Step(t, AfterFlush(th[t], "nil"))
               /\ UNCHANGED <<ofs, remoteCalls>>
          ELSE IF ofs[o].closed
          THEN /\ Step(t, AfterFlush(th[t], "EUP"))
               /\ UNCHANGED <<ofs, remoteCalls>>
          ELSE /\ Step(t, [th[t] EXCEPT !.pc = "up", !.snap = ofs[o].tmp])
               /\ ofs' = [ofs EXCEPT ![o].dirtyMu = t]
               /\ remoteCalls' = remoteCalls \cup {"upload"}
    /\ UNCHANGED <<pfOf, handleCount, pfLock, handles, content,
                   opens, releases, wrapped, crashed>>

\* a flush that clears the dirty flag whatever Upload returned
DirtyCleared(ok, d) == FALSE

\* if err == nil { o.dirty = false }
DirtyAfterUpload(ok, d) == IF ok THEN FALSE ELSE d

\* du.Upload returns: on success the remote stores what was read and dirty is cleared
OfUpload(t, ok) ==
    /\ ~crashed
    /\ PFFrame
    /\ th[t].pc = "up"
    /\ LET o == handles[th[t].h].of IN
       /\ ofs' = [ofs EXCEPT ![o] = [@ EXCEPT !.dirtyMu = Free,
                                              !.dirty = DirtyAfterUpload(ok, @)]]
       /\ content' = IF ok THEN [content EXCEPT ![pfId] = th[t].snap] ELSE content
       /\ Step(t, AfterFlush(th[t], IF ok THEN "nil" ELSE "EUP"))
    /\ UNCHANGED <<pfOf, handleCount, pfLock, handles,
                   opens, releases, remoteCalls, wrapped, crashed>>

\* ---------------------------------------------------------- handle.Release
\* a release that lets every caller through
releaseAlways(h) == TRUE

\* handle.release: the compare-and-swap of the released flag succeeds
release(h) == ~handles[h].released

\* the handles after a compare-and-swap that succeeded
ReleaseCas(h) == [handles EXCEPT ![h].released = TRUE]

\* a Release that goes to the phantom file without flushing
ReleaseStartNoFlush(rec, h) ==
    IF ~release(h) THEN Return("Release", h, "ESTALE")
    ELSE [rec EXCEPT !.op = IF rec.op = "Truncate" THEN "Truncate" ELSE "Release",
                     !.h = h, !.pc = "pfrel"]

\* the first step of Release on h by a thread whose record is rec
ReleaseStart(rec, h) ==
    IF ~release(h) THEN Return("Release", h, "ESTALE")
    ELSE [rec EXCEPT !.op = IF rec.op = "Truncate" THEN "Truncate" ELSE "Release",
                     !.h = h,
                     !.pc = IF isWriteable(handles[h].am) THEN "flush" ELSE "pfrel"]

HandleRelease(t, h) ==
    /\ ~crashed
    /\ PFFrame
    /\ CanStart(t)
    /\ KernelHandle(h)
    /\ Step(t, ReleaseStart(Idle, h))
    /\ handles' = IF release(h) THEN ReleaseCas(h) ELSE handles
    /\ HandleFrame

\* a Release that drops the flush error once the phantom release has answered
AfterReleaseDropsFlushErr(rec, err) ==
    IF rec.op = "Truncate"
    THEN Return("Open", 0, IF rec.tres = "nil" THEN "OKNilHandle" ELSE "Panic")
    ELSE Return("Release", rec.h, IF err = "nil" THEN "OK" ELSE err)

\* what the operation returns when PhantomFile.release has returned err
AfterRelease(rec, err) ==
    IF rec.op = "Truncate"
    THEN Return("Open", 0, IF rec.tres = "nil" THEN "OKNilHandle" ELSE "Panic")
    ELSE Return("Release", rec.h, IF rec.flushErr # "nil" THEN rec.flushErr
                ELSE IF err = "nil" THEN "OK" ELSE err)

\* PhantomFile.release: lock, decrement; the last handle goes on to release the
\* openFile (fetcher.abort cancels the token, then waits in fetch for the lock)
PfRelease(t) ==
    /\ ~crashed
    /\ PFFrame
    /\ th[t].pc = "pfrel"
    /\ pfLock = Free
    /\ handleCount' = Uint32Dec(handleCount)
    /\ wrapped' = (wrapped \/ handleCount = 0)
    /\ handles' = [handles EXCEPT ![th[t].h].decs = @ + 1]
    /\ IF Uint32Positive(handleCount')
       THEN /\ Step(t, AfterRelease(th[t], "nil"))
            /\ releases' = releases + 1
            /\ UNCHANGED <<pfLock, ofs, crashed>>
       ELSE IF pfOf = 0
       THEN /\ crashed' = TRUE
            /\ UNCHANGED <<pfLock, ofs, th, nOps, releases>>
       ELSE /\ pfLock' = t
            /\ ofs' = [ofs EXCEPT ![pfOf].cancelled = TRUE]
            /\ Step(t, [th[t] EXCEPT !.pc = "abort"])
            /\ UNCHANGED <<releases, crashed>>
    /\ UNCHANGED <<pfOf, content, opens, remoteCalls>>

\* openFile.release once the fetcher's lock is free: the fetch finalizes, the
\* temp file is closed and unlinked (either may fail), the slot is cleared.
\* No descriptor reaches the file's bytes any more: tmp is emptied.
OfRelease(t, outcome) ==
    /\ ~crashed
    /\ PFFrame
    /\ th[t].pc = "abort"
    /\ ofs[pfOf].mu = Free
    /\ outcome \in {"ok", "closeErr", "removeErr"}
    /\ ofs' = [ofs EXCEPT ![pfOf] = [FetchBegin(pfOf, t) EXCEPT
                  !.closed = TRUE, !.unlinked = (outcome = "ok"), !.tmp = <<>>]]
    /\ pfOf' = 0
    /\ pfLock' = Free
    /\ releases' = releases + 1
    /\ Step(t, AfterRelease(th[t], IF outcome = "ok" THEN "nil" ELSE "EREL"))
    /\ UNCHANGED <<handleCount, handles, content, opens, remoteCalls, wrapped, crashed>>

\* ---------------------------------------------------- PhantomFile.Truncate
TruncFetchMode(size) == IF size = 0 THEN NoFetch ELSE ProactiveFetch

TruncOpen(t, tmpOK) ==
    /\ ~crashed
    /\ PFFrame
    /\ th[t].pc = "topen"
    /\ CanOpen
    /\ PfOpen(WriteOnly, TruncFetchMode(th[t].size), tmpOK, FALSE)
    /\ Step(t, IF OpenFails(tmpOK) THEN Return("Open", 0, "Panic")
                               ELSE [th[t] EXCEPT !.pc = "ttrunc", !.h = Len(handles')])
    /\ UNCHANGED <<pfLock, content, releases, remoteCalls, wrapped, crashed>>

\* openFile.truncate: Truncate of the temp file, then markDirty whatever happened
TruncFile(t) ==
    /\ ~crashed
    /\ PFFrame
    /\ th[t].pc = "ttrunc"
    /\ LET o == handles[th[t].h].of IN
       /\ ofs' = IF ofs[o].closed THEN ofs
                 ELSE [ofs EXCEPT ![o].tmp = TruncateTo(@, th[t].size)]
       /\ Step(t, [th[t] EXCEPT !.pc = "dirty",
                                    !.tres = IF ofs[o].closed THEN "ETRUNC" ELSE "nil"])
    /\ UNCHANGED <<pfOf, handleCount, pfLock, handles, content,
                   opens, releases, remoteCalls, wrapped, crashed>>

\* Truncate's h.Flush
TruncFlush(t) ==
    /\ ~crashed
    /\ PFFrame
    /\ th[t].pc = "fcheck"
    /\ Step(t, IF FlushCheck(th[t].h) = "flush" THEN [th[t] EXCEPT !.pc = "flush"]
                ELSE [th[t] EXCEPT !.tres = FlushCheck(th[t].h), !.stage = "defer", !.pc = "cas"])
    /\ UNCHANGED handles
    /\ HandleFrame

\* Truncate's deferred h.Release
TruncRelease(t) ==
    /\ ~crashed
    /\ PFFrame
    /\ th[t].pc = "cas"
    /\ LET h == th[t].h IN
       /\ Step(t, IF release(h) THEN ReleaseStart(th[t], h) ELSE AfterRelease(th[t], "ESTALE"))
       /\ handles' = IF release(h) THEN ReleaseCas(h) ELSE handles
    /\ HandleFrame

\* the handler has returned: the server replies to the kernel
Reply(t) ==
    /\ ~crashed
    /\ PFFrame
    /\ th[t].pc = "ret"
    /\ Step(t, Idle)
    /\ UNCHANGED handles
    /\ HandleFrame

\* =============================================================== remote drive
\* names are sequences of characters; SlashName contains the path separator
RootName == <<"r">>
SlashName == <<"s", "/">>
HasSlash(name) == \E i \in DOMAIN name : name[i] = "/"

\* a metadata record (gdrive.Node)
Rec(id, name, parents, owned, trashed, dir) ==
    [id |-> id, name |-> name, parents |-> parents, owned |-> owned,
     trashed |-> trashed, dir |-> dir]

\* Node.IncludeNode
IncludeNode(g) == ~g.trashed /\ ~HasSlash(g.name) /\ g.owned

\* remote ids, in the order the remote assigns and lists them
IdSeq == <<"root", "d", "f", "n">>
Ids == {IdSeq[i] : i \in DOMAIN IdSeq}
Rank(id) == CHOOSE i \in DOMAIN IdSeq : IdSeq[i] = id

\* the ids the remote has ever used, and the id it assigns next
UsedIds == DOMAIN remote \cup {feed[i].id : i \in DOMAIN feed}
CanCreate == Ids \ UsedIds # {}
newID == CHOOSE id \in Ids \ UsedIds : \A x \in Ids \ UsedIds : Rank(id) <= Rank(x)

\* the remote publishes a change of id: its record, or no record once deleted
Change(id, removed, node) == [id |-> id, removed |-> removed, node |-> node]
Publish(f, g) == Append(f, Change(g.id, FALSE, <<g>>))

\* Gdrive.FetchNode: the record, or nothing (ENODATA) when there is none to show
FetchNode(id) ==
    IF id \in DOMAIN remote /\ IncludeNode(remote[id]) THEN <<remote[id]>> ELSE <<>>

\* Gdrive.FetchChildren: the included records that list id as a parent
FetchChildren(id) ==
    {remote[c] : c \in {x \in DOMAIN remote :
                          id \in remote[x].parents /\ IncludeNode(remote[x])}}

\* a set of records as a sequence, in the order the listing returns them
RECURSIVE SetToSeq(_)
SetToSeq(S) ==
    IF S = {} THEN <<>>
    ELSE LET g == CHOOSE x \in S : \A y \in S : Rank(x.id) <= Rank(y.id)
         IN <<g>> \o SetToSeq(S \ {g})

\* Gdrive.CreateNode: the record of the new file
CreateNode(parentID, name, dir) == Rec(newID, name, {parentID}, TRUE, FALSE, dir)

\* fakedrive reparent: the parent ids with the old parent replaced
reparent(g, oldParentID, newParentID) ==
    (g.parents \ {oldParentID}) \cup {newParentID}

\* Drive.Rename: the record after the rename (an empty newName keeps the name,
\* an empty oldParentID keeps the parents)
Rename(g, newName, oldParentID, newParentID) ==
    [g EXCEPT !.name = IF newName = <<>> THEN @ ELSE newName,
              !.parents = IF oldParentID = "" THEN @
                          ELSE reparent(g, oldParentID, newParentID)]

\* Drive.Rename fails: no such file, or oldParentID is not a parent of it
RenameFails(id, oldParentID) ==
    \/ id \notin DOMAIN remote
    \/ oldParentID # "" /\ oldParentID \notin remote[id].parents

\* ------------------------------------------------------- other clients
\* the directories of the drive
RemoteDirs == {x \in DOMAIN remote : remote[x].dir /\ ~remote[x].trashed}

\* the records another client can turn g into
EnvEdits(g) ==
    {[g EXCEPT !.name = SlashName], [g EXCEPT !.owned = FALSE]}
    \cup {[g EXCEPT !.parents = {p}] : p \in RemoteDirs \ {g.id}}
    \cup {[g EXCEPT !.parents = {"root", p}] : p \in RemoteDirs \ {g.id, "root"}}

EnvFrame == UNCHANGED <<lockVars, readonly, scriptC, nOps, kOps, remoteCalls, pfVars,
                        pageToken, nodes, idMap, inodeMap, nextInode, known, kt, cl, crashed>>

\* another client creates a file
EnvAdd(p, name) ==
    /\ ~crashed
    /\ envOps < MaxEnvOps
    /\ CanCreate
    /\ p \in RemoteDirs
    /\ LET g == Rec(newID, name, {p}, TRUE, FALSE, FALSE) IN
       /\ remote' = (newID :> g) @@ remote
       /\ feed' = Publish(feed, g)
       /\ content' = [content EXCEPT ![newID] = <<>>]
    /\ envOps' = envOps + 1
    /\ EnvFrame

\* another client renames, moves or gives away a file
EnvEdit(id, g) ==
    /\ ~crashed
    /\ envOps < MaxEnvOps
    /\ id \in DOMAIN remote \ {"root"}
    /\ g \in EnvEdits(remote[id]) \ {remote[id]}
    /\ remote' = [remote EXCEPT ![id] = g]
    /\ feed' = Publish(feed, g)
    /\ envOps' = envOps + 1
    /\ UNCHANGED content
    /\ EnvFrame

\* another client trashes a file (its record stays, marked trashed)
EnvTrash(id) ==
    /\ ~crashed
    /\ envOps < MaxEnvOps
    /\ id \in DOMAIN remote \ {"root"}
    /\ ~remote[id].trashed
    /\ remote' = [remote EXCEPT ![id].trashed = TRUE]
    /\ feed' = Publish(feed, remote'[id])
    /\ envOps' = envOps + 1
    /\ UNCHANGED content
    /\ EnvFrame

\* the records of the root a change can carry that processChange removes a
\* node for: trashed, or failing IncludeNode
RootEdits(g) ==
    {[g EXCEPT !.trashed = TRUE], [g EXCEPT !.owned = FALSE], [g EXCEPT !.name = SlashName]}

\* the feed delivers a change that carries the root's id
EnvRoot(g) ==
    /\ ~crashed
    /\ envOps < MaxEnvOps
    /\ g \in RootEdits(remote["root"]) \ {remote["root"]}
    /\ remote' = [remote EXCEPT !["root"] = g]
    /\ feed' = Publish(feed, g)
    /\ envOps' = envOps + 1
    /\ UNCHANGED content
    /\ EnvFrame

\* another client deletes a file for good: the change carries no record
EnvDelete(id) ==
    /\ ~crashed
    /\ envOps < MaxEnvOps
    /\ id \in DOMAIN remote \ {"root"}
    /\ remote' = [x \in DOMAIN remote \ {id} |-> remote[x]]
    /\ feed' = Append(feed, Change(id, TRUE, <<>>))
    /\ envOps' = envOps + 1
    /\ UNCHANGED content
    /\ EnvFrame


\* ================================================================= node cache
\* Go maps from remote id to *node, as sets of <<id, index>>
Keys(m) == {p[1] : p \in m}
Vals(m) == {p[2] : p \in m}
Get(m, k) == (CHOOSE p \in m : p[1] = k)[2]
Put(m, k, v) == {p \in m : p[1] # k} \cup {<<k, v>>}
Del(m, k) == {p \in m : p[1] # k}

\* the state of the cache that the system's operations read and write
Cache == [nodes |-> nodes, idMap |-> idMap, inodeMap |-> inodeMap, nextInode |-> nextInode]

SetCache(c) ==
    /\ nodes' = c.nodes
    /\ idMap' = c.idMap
    /\ inodeMap' = c.inodeMap
    /\ nextInode' = c.nextInode

\* newNode; children is the nil map (loaded = FALSE) until the first listing.
\* owned and trashed remember the record the node was last given; hc counts the
\* handles of a phantom file that is not followed.
newNode(idx, g, parents) ==
    [idx |-> idx, id |-> g.id, name |-> g.name, dir |-> g.dir, parents |-> parents,
     loaded |-> FALSE, children |-> {}, owned |-> g.owned, trashed |-> g.trashed, hc |-> 0]

\* node.haveChildren
haveChildren(c, i) == c.nodes[i].loaded

\* system.insertNode
insertNode(c, g) ==
    LET inode == c.nextInode + 1
        pm == {<<id, Get(c.idMap, id)>> : id \in g.parents \cap Keys(c.idMap)}
        linked == [i \in DOMAIN c.nodes |->
                     IF i \in Vals(pm) /\ haveChildren(c, i)
                     THEN [c.nodes[i] EXCEPT !.children = Put(@, g.id, inode)]
                     ELSE c.nodes[i]]
    IN [nodes |-> (inode :> newNode(inode, g, pm)) @@ linked,
        idMap |-> Put(c.idMap, g.id, inode),
        inodeMap |-> c.inodeMap \cup {inode},
        nextInode |-> inode]

\* node.update, first loop: the parents of node i that g no longer lists
GoneParents(c, i, g) == {p \in c.nodes[i].parents : c.nodes[p[2]].id \notin g.parents}

\* node.update, second loop: the cached parents g lists that node i lacks
NewParents(c, i, g) ==
    {np \in g.parents : np \notin Keys(c.nodes[i].parents) /\ np \in Keys(c.idMap)}

\* addChild writes the children map of the parent: a nil map panics
UpdatePanics(c, i, g) ==
    \E np \in NewParents(c, i, g) : ~haveChildren(c, Get(c.idMap, np))

\* the parents the second loop can have added: all of them, or, when it panics,
\* those the map iteration reached before the parent with the nil map
UpdateReach(c, i, g) ==
    IF UpdatePanics(c, i, g)
    THEN SUBSET {np \in NewParents(c, i, g) : haveChildren(c, Get(c.idMap, np))}
    ELSE {NewParents(c, i, g)}

\* node.update of node i with record g, the second loop having added `added`
update(c, i, g, added) ==
    LET n == c.nodes[i]
        gone == GoneParents(c, i, g)
        goneIds == {c.nodes[p[2]].id : p \in gone}
        addedTo == {Get(c.idMap, np) : np \in added}
        newN == [n EXCEPT !.name = g.name, !.dir = g.dir,
                          !.owned = g.owned, !.trashed = g.trashed,
                          !.parents = {p \in @ : p[1] \notin goneIds}
                                      \cup {<<np, Get(c.idMap, np)>> : np \in added}]
        relinked == [j \in DOMAIN c.nodes |->
                       LET m == IF j = i THEN newN ELSE c.nodes[j]
                           cut == IF j \in Vals(gone) THEN Del(m.children, n.id) ELSE m.children
                       IN [m EXCEPT !.children = IF j \in addedTo THEN Put(cut, n.id, i) ELSE cut]]
    IN [c EXCEPT !.nodes = relinked]

\* system.removeNode ends the process (log.Fatalf) when a parent does not list the node
RemoveFatal(c, i) ==
    \E p \in c.nodes[i].parents : c.nodes[i].id \notin Keys(c.nodes[p[2]].children)

\* system.removeNode
removeNode(c, i) ==
    LET n == c.nodes[i] IN
    [c EXCEPT !.idMap = Del(@, n.id),
              !.inodeMap = @ \ {i},
              !.nodes = [j \in DOMAIN c.nodes |->
                           IF j \in Vals(n.parents)
                           THEN [c.nodes[j] EXCEPT !.children = Del(@, n.id)]
                           ELSE c.nodes[j]]]

\* node.addParent
addParent(c, i, p) == [c EXCEPT !.nodes[i].parents = Put(@, c.nodes[p].id, p)]

\* system.getOrMakeNode: the node of g.ID after the call
getOrMakeNode(c, g, added) ==
    IF g.id \in Keys(c.idMap) THEN update(c, Get(c.idMap, g.id), g, added)
    ELSE insertNode(c, g)

\* node.findChild: the children of node i called name
findChild(i, name) == {p[2] : p \in {q \in nodes[i].children : nodes[q[2]].name = name}}

\* a parent check that asks only whether a parent is cached
haveCachedParent(c, g) == \E pid \in g.parents : pid \in Keys(c.idMap)

\* ------------------------------------------------------ system.processChange
\* processChange, default case: some cached parent of the record has its children
haveReadyParent(c, g) ==
    \E pid \in g.parents : pid \in Keys(c.idMap) /\ haveChildren(c, Get(c.idMap, pid))

\* which case of processChange a change with a record falls into
ChangeCase(c, ch) ==
    LET g == ch.node[1]
        nodeExists == ch.id \in Keys(c.idMap)
    IN IF ch.removed \/ g.trashed THEN (IF nodeExists THEN "remove" ELSE "none")
       ELSE IF nodeExists /\ ~IncludeNode(g) THEN "remove"
       ELSE IF nodeExists THEN "update"
       ELSE IF haveReadyParent(c, g) THEN "insert"
       ELSE "ignore"

\* processChange does not return: removeNode is fatal or update panics
ChangeFatal(c, ch) ==
    LET k == ChangeCase(c, ch) IN
    \/ k = "remove" /\ RemoveFatal(c, Get(c.idMap, ch.id))
    \/ k = "update" /\ UpdatePanics(c, Get(c.idMap, ch.id), ch.node[1])

\* the cache after processChange
processChange(c, ch) ==
    LET k == ChangeCase(c, ch)
        g == ch.node[1]
    IN IF k = "remove" THEN removeNode(c, Get(c.idMap, ch.id))
       ELSE IF k = "update"
       THEN update(c, Get(c.idMap, ch.id), g, NewParents(c, Get(c.idMap, ch.id), g))
       ELSE IF k = "insert" THEN insertNode(c, g)
       ELSE c

\* stats that count no handled change
ChangeStatsUncounted(cs, k) == cs

\* the change stats after processChange
ChangeStats(cs, k) ==
    [changed |-> cs.changed + (IF k \in {"remove", "update", "insert"} THEN 1 ELSE 0),
     ignored |-> cs.ignored + (IF k = "ignore" THEN 1 ELSE 0)]

FetchedChanges(cs) == cs.changed > 0 \/ cs.ignored > 0


\* ------------------------------------------------- watchForChanges (a goroutine)
NoStats == [changed |-> 0, ignored |-> 0]
CLIdle == [pc |-> "sleep", page |-> <<>>, pos |-> 0, last |-> TRUE, cs |-> NoStats]

CLFrame == UNCHANGED <<lockVars, readonly, scriptC, content, nOps, kOps, remoteCalls, pfVars,
                       remote, feed, envOps, known, kt>>

\* Gdrive.ProcessChanges lists the next page of the feed: the first page from the
\* stored page token with fresh stats, a later one from where the last page ended.
\* The page holds k changes; only the last page carries the new start token.
\* An error ends the call: fatal if some change of this call was handled.
CLList(k, ok) ==
    /\ ~crashed
    /\ cl.pc \in {"sleep", "list"}
    /\ LET from == IF cl.pc = "sleep" THEN pageToken ELSE cl.pos
           cs == IF cl.pc = "sleep" THEN NoStats ELSE cl.cs
           pending == Len(feed) - from
       IN /\ k \in 0..pending
          /\ k = 0 => pending = 0
          /\ IF ok
             THEN /\ cl' = [pc |-> "page", page |-> SubSeq(feed, from + 1, from + k),
                            pos |-> from + k, last |-> (k = pending), cs |-> cs]
                  /\ UNCHANGED crashed
             ELSE /\ cl' = CLIdle
                  /\ crashed' = FetchedChanges(cs)
    /\ UNCHANGED <<pageToken, nodes, idMap, inodeMap, nextInode>>
    /\ CLFrame

\* the handler is called on the next change of the page; a change without a
\* record (the file is gone) is skipped
CLHandle ==
    /\ ~crashed
    /\ cl.pc = "page"
    /\ cl.page # <<>>
    /\ LET ch == Head(cl.page) IN
       IF ch.node = <<>>
       THEN /\ cl' = [cl EXCEPT !.page = Tail(@)]
            /\ UNCHANGED <<nodes, idMap, inodeMap, nextInode, crashed>>
       ELSE IF ChangeFatal(Cache, ch)
       THEN /\ crashed' = TRUE
            /\ UNCHANGED <<nodes, idMap, inodeMap, nextInode, cl>>
       ELSE /\ SetCache(processChange(Cache, ch))
            /\ cl' = [cl EXCEPT !.page = Tail(@),
                                !.cs = ChangeStats(@, ChangeCase(Cache, ch))]
            /\ UNCHANGED crashed
    /\ UNCHANGED pageToken
    /\ CLFrame

\* the page is done: the last page stores the new start token and the call returns
CLPageEnd ==
    /\ ~crashed
    /\ cl.pc = "page"
    /\ cl.page = <<>>
    /\ pageToken' = IF cl.last THEN cl.pos ELSE pageToken
    /\ cl' = IF cl.last THEN CLIdle ELSE [cl EXCEPT !.pc = "list"]
    /\ UNCHANGED <<nodes, idMap, inodeMap, nextInode, crashed>>
    /\ CLFrame

\* ------------------------------------------------ kernel directory operations
KThreads == {"k1", "k2"}

KIdle == [op |-> "idle", pc |-> "idle", n |-> 0, name |-> <<>>, newName |-> <<>>,
          newDir |-> 0, gs |-> <<>>, kids |-> {}, g |-> <<>>, child |-> 0,
          ret |-> "none", rnode |-> 0, rh |-> 0, rlist |-> {}, pids |-> <<>>]

KReturn(rec, r) == [KIdle EXCEPT !.op = rec.op, !.n = rec.n, !.pc = "ret", !.ret = r]

KStep(k, x) ==
    /\ kt' = [kt EXCEPT ![k] = x]
    /\ kOps' = IF kt[k].op = "idle" THEN kOps + 1 ELSE kOps
    /\ UNCHANGED nOps

KCanStart(k, n) ==
    /\ ~crashed
    /\ kt[k].op = "idle"
    /\ k = "k2" => kt["k1"].op # "idle"
    /\ kOps < MaxKOps
    /\ n \in known

\* what a step that only moves a kernel thread leaves alone
KFrame == UNCHANGED <<lockVars, readonly, scriptC, content, remoteCalls, pfVars, remote, feed,
                      pageToken, envOps, nodes, idMap, inodeMap, nextInode, known, cl, crashed>>

\* system.Root, called once when the server starts serving; an error ends the process
Root(ok) ==
    /\ ~crashed
    /\ known = {}
    /\ IF ok /\ FetchNode("root") # <<>>
       THEN LET g == FetchNode("root")[1]
                c == getOrMakeNode(Cache, g, {})
            IN /\ SetCache(c)
               /\ known' = {Get(c.idMap, "root")}
               /\ UNCHANGED crashed
       ELSE /\ crashed' = TRUE
            /\ UNCHANGED <<nodes, idMap, inodeMap, nextInode, known>>
    /\ UNCHANGED <<lockVars, readonly, scriptC, content, nOps, kOps, remoteCalls, pfVars, remote, feed,
                   pageToken, envOps, kt, cl>>

\* a handler start that does not look at the mount's readonly flag
StartAnyMount(k, op, n, name, newName, newDir) ==
    /\ KCanStart(k, n)
    /\ LET rec == [KIdle EXCEPT !.op = op, !.n = n, !.name = name,
                                !.newName = newName, !.newDir = newDir]
       IN KStep(k, IF op \in {"Create", "Mkdir", "Rename", "Remove"} /\ ~nodes[n].dir
                   THEN KReturn(rec, "ENOTSUP")
                   ELSE [rec EXCEPT !.pc = "load"])
    /\ KFrame

\* the start of a handler: op(n, name, ...) with the checks that precede
\* loadChildrenIfEmpty
Start(k, op, n, name, newName, newDir) ==
    /\ KCanStart(k, n)
    /\ LET rec == [KIdle EXCEPT !.op = op, !.n = n, !.name = name,
                                !.newName = newName, !.newDir = newDir]
       IN KStep(k, IF op \in {"Create", "Mkdir", "Rename", "Remove"}
                      /\ (readonly \/ ~nodes[n].dir)
                   THEN KReturn(rec, "ENOTSUP")
                   ELSE [rec EXCEPT !.pc = "load"])
    /\ KFrame

ReadDirAll(k, n) == nodes[n].dir /\ Start(k, "ReadDirAll", n, <<>>, <<>>, 0)
Lookup(k, n, name) == nodes[n].dir /\ Start(k, "Lookup", n, name, <<>>, 0)
Create(k, n, name) == Start(k, "Create", n, name, <<>>, 0)
Mkdir(k, n, name) == Start(k, "Mkdir", n, name, <<>>, 0)
RenameOp(k, n, name, newName, newDir) ==
    newDir \in known /\ nodes[newDir].dir /\ Start(k, "Rename", n, name, newName, newDir)
Remove(k, n, name) == Start(k, "Remove", n, name, <<>>, 0)

\* the error loadChildrenIfEmpty's failure becomes
LoadError(op) == IF op \in {"Rename", "Remove"} THEN "EIO" ELSE "ENODATA"

\* loadChildrenIfEmpty: haveChildren, else FetchChildren
LoadFetch(k, ok) ==
    /\ ~crashed
    /\ kt[k].pc = "load"
    /\ KStep(k, IF haveChildren(Cache, kt[k].n) THEN [kt[k] EXCEPT !.pc = "body"]
                ELSE IF ~ok THEN KReturn(kt[k], LoadError(kt[k].op))
                ELSE [kt[k] EXCEPT !.pc = "kids",
                                   !.gs = SetToSeq(FetchChildren(nodes[kt[k].n].id))])
    /\ KFrame

\* loadChildrenIfEmpty: getOrMakeNode and addParent for the next listed child
LoadChild(k, added) ==
    /\ ~crashed
    /\ kt[k].pc = "kids"
    /\ kt[k].gs # <<>>
    /\ LET g == Head(kt[k].gs)
           exists == g.id \in Keys(idMap)
           i == IF exists THEN Get(idMap, g.id) ELSE nextInode + 1
           panics == exists /\ UpdatePanics(Cache, i, g)
       IN /\ added \in (IF exists THEN UpdateReach(Cache, i, g) ELSE {{}})
          /\ LET c == getOrMakeNode(Cache, g, added) IN
             IF panics
             THEN /\ SetCache(c)
                  /\ KStep(k, KReturn(kt[k], "Panic"))
             ELSE /\ SetCache(addParent(c, i, kt[k].n))
                  /\ KStep(k, [kt[k] EXCEPT !.gs = Tail(@), !.kids = @ \cup {i}])
    /\ UNCHANGED <<lockVars, readonly, scriptC, content, remoteCalls, pfVars, remote, feed,
                   pageToken, envOps, known, cl, crashed>>

\* loadChildrenIfEmpty: the new children map is installed
LoadInstall(k) ==
    /\ ~crashed
    /\ kt[k].pc = "kids"
    /\ kt[k].gs = <<>>
    /\ nodes' = [nodes EXCEPT ![kt[k].n] =
                   [@ EXCEPT !.loaded = TRUE,
                             !.children = {<<nodes[c].id, c>> : c \in kt[k].kids}]]
    /\ KStep(k, [kt[k] EXCEPT !.pc = "body", !.kids = {}])
    /\ UNCHANGED <<lockVars, readonly, scriptC, content, remoteCalls, pfVars, remote, feed,
                   pageToken, envOps, idMap, inodeMap, nextInode, known, cl, crashed>>

\* ReadDirAll: the entries of the children map
ReadDirBody(k) ==
    /\ ~crashed
    /\ kt[k].op = "ReadDirAll"
    /\ kt[k].pc = "body"
    /\ KStep(k, [KReturn(kt[k], "OK") EXCEPT !.rlist = Vals(nodes[kt[k].n].children)])
    /\ KFrame

\* Lookup: findChild
LookupBody(k, c) ==
    /\ ~crashed
    /\ kt[k].op = "Lookup"
    /\ kt[k].pc = "body"
    /\ LET found == findChild(kt[k].n, kt[k].name) IN
       /\ found # {} => c \in found
       /\ found = {} => c = 0
       /\ KStep(k, IF found = {} THEN KReturn(kt[k], "ENOENT")
                   ELSE [KReturn(kt[k], "OK") EXCEPT !.rnode = c])
    /\ KFrame


\* an operation that answers success although its remote call failed
RemoteErrorIgnored(e) == "OK"

\* if err != nil { return ..., err } after a call of the driver
RemoteError(e) == e

\* Create / Mkdir: gd.CreateNode
CreateRemote(k, ok) ==
    /\ ~crashed
    /\ kt[k].op \in {"Create", "Mkdir"}
    /\ kt[k].pc = "body"
    /\ remoteCalls' = remoteCalls \cup {"create_node"}
    /\ IF ok /\ CanCreate
       THEN LET g == CreateNode(nodes[kt[k].n].id, kt[k].name, kt[k].op = "Mkdir") IN
            /\ remote' = (g.id :> g) @@ remote
            /\ feed' = Publish(feed, g)
            /\ content' = [content EXCEPT ![g.id] = <<>>]
            /\ KStep(k, [kt[k] EXCEPT !.pc = "insert", !.g = <<g>>])
       ELSE /\ KStep(k, KReturn(kt[k], RemoteError("EIO")))
            /\ UNCHANGED <<remote, feed, content>>
    /\ UNCHANGED <<lockVars, readonly, scriptC, pfVars, pageToken, envOps,
                   nodes, idMap, inodeMap, nextInode, known, cl, crashed>>

\* Mkdir: insertNode under the system lock
MkdirInsert(k) ==
    /\ ~crashed
    /\ kt[k].op = "Mkdir"
    /\ kt[k].pc = "insert"
    /\ LET c == insertNode(Cache, kt[k].g[1]) IN
       /\ SetCache(c)
       /\ KStep(k, [KReturn(kt[k], "OK") EXCEPT !.rnode = c.nextInode])
    /\ UNCHANGED <<lockVars, readonly, scriptC, content, remoteCalls, pfVars, remote, feed,
                   pageToken, envOps, known, cl, crashed>>

\* Create: insertNode under the system lock, then PhantomFile.Open(WriteOnly,
\* NoFetch) of the new node; the new phantom file is followed if none is yet
CreateInsert(k, tmpOK) ==
    /\ ~crashed
    /\ kt[k].op = "Create"
    /\ kt[k].pc = "insert"
    /\ LET c == insertNode(Cache, kt[k].g[1])
           created == c.nextInode
       IN /\ IF pfNode = 0
             THEN /\ SetCache(c)
                  /\ pfNode' = IF tmpOK THEN created ELSE 0
                  /\ PfOpen(WriteOnly, NoFetch, tmpOK, TRUE)
             ELSE /\ SetCache([c EXCEPT !.nodes[created].hc = IF tmpOK THEN 1 ELSE 0])
                  /\ UNCHANGED <<pfNode, pfOf, ofs, handleCount, handles, opens>>
          /\ KStep(k, IF tmpOK
                      THEN [KReturn(kt[k], "OK") EXCEPT
                               !.rnode = created,
                               !.rh = IF pfNode = 0 THEN Len(handles') ELSE 0]
                      ELSE KReturn(kt[k], "EIO"))
    /\ UNCHANGED <<lockVars, readonly, scriptC, content, remoteCalls, pfLock, th, releases, wrapped,
                   remote, feed, pageToken, envOps, known, cl, crashed>>

\* a Rename that hands the directory's id to the driver whatever the target is
OldParentIDAlways(n, newDir) == nodes[n].id

\* Rename: the parent ids handed to the driver (both empty within one directory)
OldParentID(n, newDir) == IF nodes[n].id = nodes[newDir].id THEN "" ELSE nodes[n].id
NewParentID(n, newDir) == IF nodes[n].id = nodes[newDir].id THEN "" ELSE nodes[newDir].id

\* Rename: findChild, then gd.Rename
RenameRemote(k, c, ok) ==
    /\ ~crashed
    /\ kt[k].op = "Rename"
    /\ kt[k].pc = "body"
    /\ LET found == findChild(kt[k].n, kt[k].name)
           oldP == OldParentID(kt[k].n, kt[k].newDir)
           newP == NewParentID(kt[k].n, kt[k].newDir)
       IN /\ found # {} => c \in found
          /\ found = {} => c = 0
          /\ IF found = {}
             THEN /\ KStep(k, KReturn(kt[k], "ENOENT"))
                  /\ UNCHANGED <<remote, feed, remoteCalls>>
             ELSE /\ remoteCalls' = remoteCalls \cup {"rename"}
                  /\ IF ok /\ ~RenameFails(nodes[c].id, oldP)
                     THEN LET g == Rename(remote[nodes[c].id], kt[k].newName, oldP, newP) IN
                          /\ remote' = [remote EXCEPT ![g.id] = g]
                          /\ feed' = Publish(feed, g)
                          /\ KStep(k, [kt[k] EXCEPT !.pc = "upd", !.child = c, !.g = <<g>>,
                                                    !.pids = <<oldP, newP>>])
                     ELSE /\ KStep(k, [KReturn(kt[k], RemoteError("ERemote")) EXCEPT
                                          !.pids = <<oldP, newP>>])
                          /\ UNCHANGED <<remote, feed>>
    /\ UNCHANGED <<lockVars, readonly, scriptC, content, pfVars, pageToken, envOps,
                   nodes, idMap, inodeMap, nextInode, known, cl, crashed>>

\* Rename: child.update under the system lock (a panic is recovered by the server)
RenameUpdate(k, added) ==
    /\ ~crashed
    /\ kt[k].op = "Rename"
    /\ kt[k].pc = "upd"
    /\ added \in UpdateReach(Cache, kt[k].child, kt[k].g[1])
    /\ SetCache(update(Cache, kt[k].child, kt[k].g[1], added))
    /\ KStep(k, KReturn(kt[k], IF UpdatePanics(Cache, kt[k].child, kt[k].g[1])
                               THEN "Panic" ELSE "OK"))
    /\ UNCHANGED <<lockVars, readonly, scriptC, content, remoteCalls, pfVars, remote, feed,
                   pageToken, envOps, known, cl, crashed>>

\* Remove: findChild, then gd.Trash
RemoveRemote(k, c, ok) ==
    /\ ~crashed
    /\ kt[k].op = "Remove"
    /\ kt[k].pc = "body"
    /\ LET found == findChild(kt[k].n, kt[k].name) IN
       /\ found # {} => c \in found
       /\ found = {} => c = 0
       /\ IF found = {}
          THEN /\ KStep(k, KReturn(kt[k], "ENOENT"))
               /\ UNCHANGED <<remote, feed, remoteCalls>>
          ELSE /\ remoteCalls' = remoteCalls \cup {"trash"}
               /\ IF ok /\ nodes[c].id \in DOMAIN remote
                  THEN /\ remote' = [remote EXCEPT ![nodes[c].id].trashed = TRUE]
                       /\ feed' = Publish(feed, remote'[nodes[c].id])
                       /\ KStep(k, [kt[k] EXCEPT !.pc = "rm", !.child = c])
                  ELSE /\ KStep(k, KReturn(kt[k], RemoteError("ERemote")))
                       /\ UNCHANGED <<remote, feed>>
    /\ UNCHANGED <<lockVars, readonly, scriptC, content, pfVars, pageToken, envOps,
                   nodes, idMap, inodeMap, nextInode, known, cl, crashed>>

\* Remove: system.removeNode under the system lock
RemoveNode(k) ==
    /\ ~crashed
    /\ kt[k].op = "Remove"
    /\ kt[k].pc = "rm"
    /\ IF RemoveFatal(Cache, kt[k].child)
       THEN /\ crashed' = TRUE
            /\ UNCHANGED <<nodes, idMap, inodeMap, nextInode, kt, nOps, kOps>>
       ELSE /\ SetCache(removeNode(Cache, kt[k].child))
            /\ KStep(k, KReturn(kt[k], "OK"))
            /\ UNCHANGED crashed
    /\ UNCHANGED <<lockVars, readonly, scriptC, content, remoteCalls, pfVars, remote, feed,
                   pageToken, envOps, known, cl>>

\* the handler has returned: the server replies, the kernel learns the new node
KReply(k) ==
    /\ ~crashed
    /\ kt[k].pc = "ret"
    /\ known' = known \cup (IF kt[k].rnode # 0 THEN {kt[k].rnode} ELSE {})
    /\ KStep(k, KIdle)
    /\ UNCHANGED <<lockVars, readonly, scriptC, content, remoteCalls, pfVars, remote, feed,
                   pageToken, envOps, nodes, idMap, inodeMap, nextInode, cl, crashed>>

\* ------------------------------------------------ inputs of the operations
KNames == {<<"d">>, <<"f">>, <<"x">>}
NewNames == {<<"x">>}

\* byte strings of length 1..n over DataBytes
RECURSIVE BytesUpTo(_)
BytesUpTo(n) ==
    IF n = 0 THEN {}
    ELSE LET shorter == BytesUpTo(n - 1)
         IN {<<b>> : b \in DataBytes} \cup shorter
            \cup {Append(d, b) : d \in {x \in shorter : Len(x) = n - 1}, b \in DataBytes}

Offsets == 0..(MaxLen - 1)
Sizes == 1..MaxLen
AccModes == 0..3

\* ================================================================ the drive
RootRec == Rec("root", RootName, {}, TRUE, FALSE, TRUE)
DirRec == Rec("d", <<"d">>, {"root"}, TRUE, FALSE, TRUE)
FileRec(p) == Rec("f", <<"f">>, {p}, TRUE, FALSE, FALSE)

\* the drive at mount time: a directory d in the root and a file f in d
Drive0 == ("root" :> RootRec) @@ ("d" :> DirRec) @@ ("f" :> FileRec("d"))

\* newSystem
EmptyCache == [nodes |-> [i \in {} |-> 0], idMap |-> {}, inodeMap |-> {},
               nextInode |-> firstDynamicIdx]

\* ------------------------------------------------------------------ mutexes
\* The Lock and Unlock calls of every function, in the order the function makes
\* them, on two nodes of the cache, named by their kernel handles (either may be
\* the parent of the other). A thread runs the calls of one operation.
LThreads == {"k1", "k2", "poll", "bg"}
LNodes == {1, 2}

SystemMu == <<"system.mu", 0>>
NodeMu(n) == <<"node.mu", n>>
NodeCmu(n) == <<"node.cmu", n>>
PfMu(n) == <<"PhantomFile.mu", n>>
DirtyMu(n) == <<"openFile.dirtyMu", n>>
FetcherMu(n) == <<"fetcher.mu", n>>

Locks == {SystemMu} \cup {NodeMu(n) : n \in LNodes} \cup {NodeCmu(n) : n \in LNodes}
         \cup {PfMu(n) : n \in LNodes} \cup {DirtyMu(n) : n \in LNodes}
         \cup {FetcherMu(n) : n \in LNodes}

\* l.Lock(), the calls of body, l.Unlock()
Locked(l, body) == <<<<"Lock", l>>>> \o body \o <<<<"Unlock", l>>>>

\* l.Lock(), a read or a write of the children map of node n, l.Unlock(): the
\* Unlock carries n, so that a thread about to make it is inside the access
Access(l, n) == <<<<"Lock", l>>, <<"Unlock", l, n>>>>

\* the calls made for a parent that may be missing (0)
IfNode(p, calls) == IF p = 0 THEN <<>> ELSE calls

haveChildrenLocks(n) == Access(NodeCmu(n), n)
addChildLocks(n) == Access(NodeCmu(n), n)
removeChildLocks(n) == Access(NodeCmu(n), n)
addParentLocks(n) == Locked(NodeMu(n), <<>>)

\* node.update of n: removeChild on the parent that is gone, addChild on the new one
updateLocks(n, gone, added) ==
    Locked(NodeMu(n), IfNode(gone, removeChildLocks(gone)) \o IfNode(added, addChildLocks(added)))

\* system.insertNode with the cached parent p
insertNodeLocks(p) == IfNode(p, haveChildrenLocks(p) \o Access(NodeMu(p), p))

\* system.removeNode of a node with the parent p
removeNodeLocks(p) == IfNode(p, Access(NodeCmu(p), p))

\* system.getOrMakeNode, calling insertNode or update
getOrMakeNodeLocks(body) == Locked(SystemMu, body)

\* a loadChildrenIfEmpty that keeps the children lock while it makes the nodes
loadChildrenHoldingCmu(n, c, body) ==
    Locked(NodeCmu(n), getOrMakeNodeLocks(body) \o addParentLocks(c)) \o Locked(NodeMu(n), <<>>)

\* loadChildrenIfEmpty of n listing the child c
loadChildrenIfEmptyLocks(n, c, body) ==
    haveChildrenLocks(n) \o getOrMakeNodeLocks(body) \o addParentLocks(c)
        \o Access(NodeCmu(n), n) \o Locked(NodeMu(n), <<>>)

findChildLocks(n) == haveChildrenLocks(n) \o Access(NodeCmu(n), n)

\* fetcher.fetch, also called by abort
fetchLocks(n) == Locked(FetcherMu(n), <<>>)

\* a StatIfLocal that waits for the fetch before it locks the phantom file
StatFetchFirst(n) == Locked(FetcherMu(n), Locked(PfMu(n), <<>>))

\* PhantomFile.StatIfLocal: openFile.stat calls fetch
StatIfLocalLocks(n) == Locked(PfMu(n), fetchLocks(n))

AttrLocks(n) == Locked(NodeMu(n), StatIfLocalLocks(n))
PfOpenLocks(n) == Locked(PfMu(n), <<>>)
markDirtyLocks(n) == Locked(DirtyMu(n), <<>>)
flushLocks(n) == Locked(DirtyMu(n), <<>>)

\* PhantomFile.release of the last handle: openFile.release calls fetcher.abort
pfReleaseLocks(n) == Locked(PfMu(n), fetchLocks(n))

ReadLocks(n) == fetchLocks(n)
WriteLocks(n) == fetchLocks(n) \o markDirtyLocks(n)
ReleaseLocks(n) == flushLocks(n) \o pfReleaseLocks(n)
TruncateLocks(n) == PfOpenLocks(n) \o markDirtyLocks(n) \o flushLocks(n) \o ReleaseLocks(n)

\* the directory operations of n on its child c (the directory being loaded
\* already for those that change it), Rename moving c to p
ReadDirAllLocks(n, c, body) == loadChildrenIfEmptyLocks(n, c, body) \o Access(NodeCmu(n), n)
LookupLocks(n) == haveChildrenLocks(n) \o findChildLocks(n)
CreateLocks(n, c) ==
    haveChildrenLocks(n)
        \o Locked(SystemMu, insertNodeLocks(n) \o AttrLocks(c) \o PfOpenLocks(c))
MkdirLocks(n) == haveChildrenLocks(n) \o Locked(SystemMu, insertNodeLocks(n))
RenameLocks(n, c, p) ==
    haveChildrenLocks(n) \o findChildLocks(n)
        \o Locked(SystemMu, IF p = n THEN updateLocks(c, 0, 0) ELSE updateLocks(c, n, p))
RemoveLocks(n, c) ==
    haveChildrenLocks(n) \o findChildLocks(n) \o Locked(SystemMu, removeNodeLocks(n))

\* node.dump of n and of its child c
dumpLocks(n, c) ==
    Locked(NodeMu(n), <<>>) \o haveChildrenLocks(n) \o Access(NodeCmu(n), n)
        \o Locked(NodeMu(c), <<>>)

\* system.processChange: removeNode, update, or haveChildren and insertNode
processChangeLocks(c, p) ==
    {Locked(SystemMu, removeNodeLocks(p)),
     Locked(SystemMu, updateLocks(c, p, 0)),
     Locked(SystemMu, updateLocks(c, 0, p)),
     Locked(SystemMu, haveChildrenLocks(p) \o insertNodeLocks(p))}

\* what a kernel thread can be asked to do on n, with c the other node
KernelLocks(n, c) ==
    {AttrLocks(n), ReadLocks(n), WriteLocks(n), ReleaseLocks(n), TruncateLocks(n),
     ReadDirAllLocks(n, c, insertNodeLocks(n)),
     ReadDirAllLocks(n, c, updateLocks(c, 0, 0)),
     LookupLocks(n), CreateLocks(n, c), MkdirLocks(n),
     RenameLocks(n, c, n), RenameLocks(n, c, c), RemoveLocks(n, c),
     dumpLocks(n, c)}

KPrograms == UNION {KernelLocks(n, c) : <<n, c>> \in {<<1, 2>>, <<2, 1>>}}
PollPrograms == UNION {processChangeLocks(c, p) : <<c, p>> \in {<<1, 2>>, <<2, 1>>}}
BgPrograms == {fetchLocks(n) : n \in LNodes}

\* no thread is inside an operation
LocksIdle ==
    /\ held = [l \in Locks |-> Free]
    /\ lprog = [t \in LThreads |-> <<>>]

LockFrame == UNCHANGED <<readonly, crashed, scriptC, content, nOps, remoteCalls,
                         pfVars, treeVars>>

\* sync.Mutex.Lock returns to thread t
LockStep(t) ==
    /\ lprog[t] # <<>>
    /\ Head(lprog[t])[1] = "Lock"
    /\ held[Head(lprog[t])[2]] = Free
    /\ held' = [held EXCEPT ![Head(lprog[t])[2]] = t]
    /\ lprog' = [lprog EXCEPT ![t] = Tail(@)]
    /\ LockFrame

\* sync.Mutex.Unlock by thread t
UnlockStep(t) ==
    /\ lprog[t] # <<>>
    /\ Head(lprog[t])[1] = "Unlock"
    /\ held' = [held EXCEPT ![Head(lprog[t])[2]] = Free]
    /\ lprog' = [lprog EXCEPT ![t] = Tail(@)]
    /\ LockFrame

\* the state of a PhantomFile after NewPhantomFile, with no request in flight
PhantomInit ==
    /\ pfOf = 0
    /\ handleCount = 0
    /\ pfLock = Free
    /\ ofs = <<>>
    /\ handles = <<>>
    /\ th = [t \in Threads |-> Idle]
    /\ opens = 0
    /\ releases = 0
    /\ wrapped = FALSE

\* the state after newSystem, before the server serves
TreeInit ==
    /\ crashed = FALSE
    /\ nOps = 0
    /\ kOps = 0
    /\ remoteCalls = {}
    /\ pfNode = 0
    /\ PhantomInit
    /\ feed = <<>>
    /\ pageToken = 0
    /\ envOps = 0
    /\ nodes = EmptyCache.nodes
    /\ idMap = EmptyCache.idMap
    /\ inodeMap = EmptyCache.inodeMap
    /\ nextInode = EmptyCache.nextInode
    /\ known = {}
    /\ kt = [k \in KThreads |-> KIdle]
    /\ cl = CLIdle

\* --------------------------------------------- specification: phantom file
\* The phantom file of one cached file node (remote id f, in the loaded root),
\* used by two kernel threads.
PFDrive == ("root" :> RootRec) @@ ("f" :> FileRec("root"))
PFCache ==
    LET c == insertNode(EmptyCache, RootRec)
        root == c.nextInode
    IN insertNode([c EXCEPT !.nodes[root].loaded = TRUE], FileRec("root"))

PFInit ==
    /\ LocksIdle
    /\ readonly \in BOOLEAN
    /\ crashed = FALSE
    /\ scriptC = <<1>>
    /\ nOps = 0
    /\ kOps = 0
    /\ remoteCalls = {}
    /\ content = [id \in Ids |-> IF id = "f" THEN InitContent ELSE <<>>]
    /\ PhantomInit
    /\ pfNode = Get(PFCache.idMap, "f")
    /\ remote = PFDrive
    /\ feed = <<>>
    /\ pageToken = 0
    /\ envOps = 0
    /\ nodes = PFCache.nodes
    /\ idMap = PFCache.idMap
    /\ inodeMap = PFCache.inodeMap
    /\ nextInode = PFCache.nextInode
    /\ known = Vals(PFCache.idMap)
    /\ kt = [k \in KThreads |-> KIdle]
    /\ cl = CLIdle

PFNext ==
    \/ \E t \in Threads, n \in known, acc \in AccModes, trunc \in BOOLEAN,
          excl \in BOOLEAN, tmpOK \in BOOLEAN :
          NodeOpen(t, n, acc, trunc, excl, tmpOK)
    \/ \E o \in DOMAIN ofs : BgFetch(o)
    \/ \E o \in DOMAIN ofs, outcome \in {"ok", "err", "cancelled"}, k \in 0..MaxLen :
          BgDownload(o, outcome, k)
    \/ \E t \in Threads : ThFetch(t)
    \/ \E t \in Threads, outcome \in {"ok", "err", "cancelled"}, k \in 0..MaxLen :
          ThDownload(t, outcome, k)
    \/ \E t \in Threads, h \in DOMAIN handles, size \in Sizes :
          HandleRead(t, h, 0, size)
    \/ \E t \in Threads : ReadIO(t)
    \/ \E t \in Threads, h \in DOMAIN handles, off \in Offsets :
          HandleWrite(t, h, off, scriptC)
    \/ \E t \in Threads : WriteIO(t)
    \/ \E t \in Threads : MarkDirty(t)
    \/ \E t \in Threads, h \in DOMAIN handles : HandleFlush(t, h)
    \/ \E t \in Threads : OfFlush(t)
    \/ \E t \in Threads, ok \in BOOLEAN : OfUpload(t, ok)
    \/ \E t \in Threads, h \in DOMAIN handles : HandleRelease(t, h)
    \/ \E t \in Threads : PfRelease(t)
    \/ \E t \in Threads, outcome \in {"ok", "closeErr", "removeErr"} : OfRelease(t, outcome)
    \/ \E t \in Threads, tmpOK \in BOOLEAN : TruncOpen(t, tmpOK)
    \/ \E t \in Threads : TruncFile(t)
    \/ \E t \in Threads : TruncFlush(t)
    \/ \E t \in Threads : TruncRelease(t)
    \/ \E t \in Threads : Reply(t)

SpecPF == PFInit /\ [][PFNext]_vars

\* ------------------------------- specification: phantom file, fair scheduling
\* The requests of SpecPF under a scheduler that lets every goroutine that can
\* go on go on: a thread inside a handler takes its next step (a sync.Mutex
\* that stays free is acquired), the background fetch runs, Download returns
\* once its context is cancelled (it polls ctx.Done() before every read), and
\* Upload returns.
MaxFairOps == 3

CancelledBgDownload(o) ==
    /\ o \in DOMAIN ofs
    /\ ofs[o].cancelled
    /\ \E outcome \in {"ok", "err", "cancelled"}, k \in 0..MaxLen : BgDownload(o, outcome, k)

CancelledThDownload(t) ==
    /\ th[t].pc = "dl"
    /\ ofs[handles[th[t].h].of].cancelled
    /\ \E outcome \in {"ok", "err", "cancelled"}, k \in 0..MaxLen : ThDownload(t, outcome, k)

FairPF ==
    /\ \A o \in 1..MaxFairOps : WF_vars(CancelledBgDownload(o))
    /\ \A t \in Threads :
          /\ WF_vars(CancelledThDownload(t))
          /\ WF_vars(OfFlush(t))
          /\ WF_vars(\E ok \in BOOLEAN : OfUpload(t, ok))
          /\ WF_vars(PfRelease(t))
          /\ WF_vars(\E outcome \in {"ok", "closeErr", "removeErr"} : OfRelease(t, outcome))

\* the requests of PFNext, at most MaxFairOps of them
PFFairNext ==
    \/ \E t \in Threads, n \in known, acc \in AccModes, trunc \in BOOLEAN,
          excl \in BOOLEAN, tmpOK \in BOOLEAN :
          nOps < MaxFairOps /\ NodeOpen(t, n, acc, trunc, excl, tmpOK)
    \/ \E o \in DOMAIN ofs : BgFetch(o)
    \/ \E o \in DOMAIN ofs, outcome \in {"ok", "err", "cancelled"}, k \in 0..MaxLen :
          BgDownload(o, outcome, k)
    \/ \E t \in Threads : ThFetch(t)
    \/ \E t \in Threads, outcome \in {"ok", "err", "cancelled"}, k \in 0..MaxLen :
          ThDownload(t, outcome, k)
    \/ \E t \in Threads, h \in DOMAIN handles, size \in Sizes :
          nOps < MaxFairOps /\ HandleRead(t, h, 0, size)
    \/ \E t \in Threads : ReadIO(t)
    \/ \E t \in Threads, h \in DOMAIN handles, off \in Offsets :
          nOps < MaxFairOps /\ HandleWrite(t, h, off, scriptC)
    \/ \E t \in Threads : WriteIO(t)
    \/ \E t \in Threads : MarkDirty(t)
    \/ \E t \in Threads, h \in DOMAIN handles : nOps < MaxFairOps /\ HandleFlush(t, h)
    \/ \E t \in Threads : OfFlush(t)
    \/ \E t \in Threads, ok \in BOOLEAN : OfUpload(t, ok)
    \/ \E t \in Threads, h \in DOMAIN handles : nOps < MaxFairOps /\ HandleRelease(t, h)
    \/ \E t \in Threads : PfRelease(t)
    \/ \E t \in Threads, outcome \in {"ok", "closeErr", "removeErr"} : OfRelease(t, outcome)
    \/ \E t \in Threads, tmpOK \in BOOLEAN : TruncOpen(t, tmpOK)
    \/ \E t \in Threads : TruncFile(t)
    \/ \E t \in Threads : TruncFlush(t)
    \/ \E t \in Threads : TruncRelease(t)
    \/ \E t \in Threads : Reply(t)

SpecPFFair == PFInit /\ [][PFFairNext]_vars /\ FairPF

\* ------------------------------------------------ specification: node cache
\* The node cache with the change loop, other clients of the drive and two kernel
\* threads: k1 takes any directory request, k2 lists directories meanwhile.
TInit ==
    /\ LocksIdle
    /\ readonly \in BOOLEAN
    /\ scriptC = <<1>>
    /\ content = [id \in Ids |-> IF id = "f" THEN InitContent ELSE <<>>]
    /\ remote = Drive0
    /\ TreeInit

TreeNext ==
    \/ \E ok \in BOOLEAN : Root(ok)
    \/ \E k \in KThreads, n \in known : ReadDirAll(k, n)
    \/ \E n \in known, name \in KNames : Lookup("k1", n, name)
    \/ \E n \in known, name \in NewNames : Create("k1", n, name)
    \/ \E n \in known, name \in NewNames : Mkdir("k1", n, name)
    \/ \E n \in known, name \in KNames, newName \in NewNames, newDir \in known :
          RenameOp("k1", n, name, newName, newDir)
    \/ \E n \in known, name \in KNames : Remove("k1", n, name)
    \/ \E k \in KThreads, ok \in BOOLEAN : LoadFetch(k, ok)
    \/ \E k \in KThreads, added \in SUBSET Ids : LoadChild(k, added)
    \/ \E k \in KThreads : LoadInstall(k)
    \/ \E k \in KThreads : ReadDirBody(k)
    \/ \E k \in KThreads, c \in DOMAIN nodes \cup {0} : LookupBody(k, c)
    \/ \E k \in KThreads, ok \in BOOLEAN : CreateRemote(k, ok)
    \/ \E k \in KThreads : MkdirInsert(k)
    \/ \E k \in KThreads, tmpOK \in BOOLEAN : CreateInsert(k, tmpOK)
    \/ \E k \in KThreads, c \in DOMAIN nodes \cup {0}, ok \in BOOLEAN : RenameRemote(k, c, ok)
    \/ \E k \in KThreads, added \in SUBSET Ids : RenameUpdate(k, added)
    \/ \E k \in KThreads, c \in DOMAIN nodes \cup {0}, ok \in BOOLEAN : RemoveRemote(k, c, ok)
    \/ \E k \in KThreads : RemoveNode(k)
    \/ \E k \in KThreads : KReply(k)
    \/ \E p \in Ids, name \in {<<"x">>, SlashName} : EnvAdd(p, name)
    \/ \E id \in DOMAIN remote : \E g \in EnvEdits(remote[id]) : EnvEdit(id, g)
    \/ \E id \in Ids : EnvTrash(id)
    \/ \E id \in Ids : EnvDelete(id)
    \/ \E g \in RootEdits(remote["root"]) : EnvRoot(g)
    \/ \E k \in 0..MaxEnvOps + MaxKOps, ok \in BOOLEAN : CLList(k, ok)
    \/ CLHandle
    \/ CLPageEnd

SpecTree == TInit /\ [][TreeNext]_vars

\* ------------------------------------------------------ specification: mount
\* A mount that is read-only or writeable, used by a client that sends one
\* request at a time, MaxMountOps in all: a file request to t1 or a directory
\* request to k1. Background fetches run beside the requests. The root is loaded
\* and lists the directory d and the file f; f is in d as well.
MDrive == ("root" :> RootRec) @@ ("d" :> DirRec) @@
          ("f" :> [FileRec("root") EXCEPT !.parents = {"root", "d"}])
MCache ==
    LET c == insertNode(EmptyCache, RootRec)
        root == c.nextInode
    IN insertNode(insertNode([c EXCEPT !.nodes[root].loaded = TRUE], MDrive["d"]),
                  MDrive["f"])

MInit ==
    /\ LocksIdle
    /\ readonly \in BOOLEAN
    /\ crashed = FALSE
    /\ scriptC = <<1>>
    /\ nOps = 0
    /\ kOps = 0
    /\ remoteCalls = {}
    /\ content = [id \in Ids |-> IF id = "f" THEN InitContent ELSE <<>>]
    /\ PhantomInit
    /\ pfNode = Get(MCache.idMap, "f")
    /\ remote = MDrive
    /\ feed = <<>>
    /\ pageToken = 0
    /\ envOps = 0
    /\ nodes = MCache.nodes
    /\ idMap = MCache.idMap
    /\ inodeMap = MCache.inodeMap
    /\ nextInode = MCache.nextInode
    /\ known = Vals(MCache.idMap)
    /\ kt = [k \in KThreads |-> KIdle]
    /\ cl = CLIdle

MountBusy == nOps + kOps >= MaxMountOps
FileThreads == IF kt["k1"].op = "idle" /\ ~MountBusy THEN {"t1"} ELSE {}
DirThreads == IF th["t1"].op = "idle" /\ ~MountBusy THEN {"k1"} ELSE {}

MountNext ==
    \/ \E t \in FileThreads, n \in known, acc \in AccModes, trunc \in BOOLEAN,
          excl \in BOOLEAN, tmpOK \in BOOLEAN :
          NodeOpen(t, n, acc, trunc, excl, tmpOK)
    \/ \E o \in DOMAIN ofs : BgFetch(o)
    \/ \E o \in DOMAIN ofs, outcome \in {"ok", "err", "cancelled"}, k \in 0..MaxLen :
          BgDownload(o, outcome, k)
    \/ ThFetch("t1")
    \/ \E outcome \in {"ok", "err", "cancelled"}, k \in 0..MaxLen :
          ThDownload("t1", outcome, k)
    \/ \E t \in FileThreads, h \in DOMAIN handles, size \in Sizes :
          HandleRead(t, h, 0, size)
    \/ ReadIO("t1")
    \/ \E t \in FileThreads, h \in DOMAIN handles, off \in Offsets :
          HandleWrite(t, h, off, scriptC)
    \/ WriteIO("t1")
    \/ MarkDirty("t1")
    \/ \E t \in FileThreads, h \in DOMAIN handles : HandleFlush(t, h)
    \/ OfFlush("t1")
    \/ \E ok \in BOOLEAN : OfUpload("t1", ok)
    \/ \E t \in FileThreads, h \in DOMAIN handles : HandleRelease(t, h)
    \/ PfRelease("t1")
    \/ \E outcome \in {"ok", "closeErr", "removeErr"} : OfRelease("t1", outcome)
    \/ \E tmpOK \in BOOLEAN : TruncOpen("t1", tmpOK)
    \/ TruncFile("t1")
    \/ TruncFlush("t1")
    \/ TruncRelease("t1")
    \/ Reply("t1")
    \/ \E k \in DirThreads, n \in known : ReadDirAll(k, n)
    \/ \E k \in DirThreads, n \in known, name \in KNames : Lookup(k, n, name)
    \/ \E k \in DirThreads, n \in known, name \in NewNames : Create(k, n, name)
    \/ \E k \in DirThreads, n \in known, name \in NewNames : Mkdir(k, n, name)
    \/ \E k \in DirThreads, n \in known, name \in KNames, newName \in NewNames,
          newDir \in known : RenameOp(k, n, name, newName, newDir)
    \/ \E k \in DirThreads, n \in known, name \in KNames : Remove(k, n, name)
    \/ \E ok \in BOOLEAN : LoadFetch("k1", ok)
    \/ \E added \in SUBSET Ids : LoadChild("k1", added)
    \/ LoadInstall("k1")
    \/ ReadDirBody("k1")
    \/ \E c \in DOMAIN nodes \cup {0} : LookupBody("k1", c)
    \/ \E ok \in BOOLEAN : CreateRemote("k1", ok)
    \/ MkdirInsert("k1")
    \/ \E tmpOK \in BOOLEAN : CreateInsert("k1", tmpOK)
    \/ \E c \in DOMAIN nodes \cup {0}, ok \in BOOLEAN : RenameRemote("k1", c, ok)
    \/ \E added \in SUBSET Ids : RenameUpdate("k1", added)
    \/ \E c \in DOMAIN nodes \cup {0}, ok \in BOOLEAN : RemoveRemote("k1", c, ok)
    \/ RemoveNode("k1")
    \/ KReply("k1")

SpecMount == MInit /\ [][MountNext]_vars

\* ------------------------------------------------- specification: round trip
\* A writeable mount whose driver performs every call, with the root loaded and
\* the directory d not yet. One client creates a file, writes scriptC at offset
\* 0 through the handle of Create, releases it, opens the node ReadOnly and reads
\* from offset 0. The change loop and the background fetch run beside it.
RTCache ==
    LET c == insertNode(EmptyCache, RootRec)
        root == c.nextInode
    IN insertNode([c EXCEPT !.nodes[root].loaded = TRUE], DirRec)

RTInit ==
    /\ LocksIdle
    /\ readonly = FALSE
    /\ crashed = FALSE
    /\ scriptC \in BytesUpTo(MaxLen + 1)
    /\ nOps = 0
    /\ kOps = 0
    /\ remoteCalls = {}
    /\ content = [id \in Ids |-> IF id = "f" THEN InitContent ELSE <<>>]
    /\ PhantomInit
    /\ pfNode = 0
    /\ remote = Drive0
    /\ feed = <<>>
    /\ pageToken = 0
    /\ envOps = 0
    /\ nodes = RTCache.nodes
    /\ idMap = RTCache.idMap
    /\ inodeMap = RTCache.inodeMap
    /\ nextInode = RTCache.nextInode
    /\ known = Vals(RTCache.idMap)
    /\ kt = [k \in KThreads |-> KIdle]
    /\ cl = CLIdle

\* Create has replied with a node and a handle, and i file requests were sent
RTAfter(i) == pfNode \in known /\ kt["k1"].op = "idle" /\ nOps = i

RTNext ==
    \/ \E n \in known : kOps = 0 /\ Create("k1", n, <<"x">>)
    \/ LoadFetch("k1", TRUE)
    \/ \E added \in SUBSET Ids : LoadChild("k1", added)
    \/ LoadInstall("k1")
    \/ CreateRemote("k1", TRUE)
    \/ CreateInsert("k1", TRUE)
    \/ KReply("k1")
    \/ RTAfter(0) /\ HandleWrite("t1", 1, 0, scriptC)
    \/ WriteIO("t1")
    \/ MarkDirty("t1")
    \/ RTAfter(1) /\ HandleRelease("t1", 1)
    \/ OfFlush("t1")
    \/ OfUpload("t1", TRUE)
    \/ PfRelease("t1")
    \/ \E outcome \in {"ok", "closeErr", "removeErr"} : OfRelease("t1", outcome)
    \/ \E trunc \in BOOLEAN : RTAfter(2) /\ NodeOpen("t1", pfNode, 0, trunc, FALSE, TRUE)
    \/ \E o \in DOMAIN ofs : BgFetch(o)
    \/ \E o \in DOMAIN ofs : BgDownload(o, "ok", 0)
    \/ \E size \in Len(scriptC)..(MaxLen + 1) : RTAfter(3) /\ HandleRead("t1", 2, 0, size)
    \/ ThFetch("t1")
    \/ ThDownload("t1", "ok", 0)
    \/ ReadIO("t1")
    \/ Reply("t1")
    \/ \E k \in 0..MaxEnvOps + MaxKOps, ok \in BOOLEAN : CLList(k, ok)
    \/ CLHandle
    \/ CLPageEnd

SpecRT == RTInit /\ [][RTNext]_vars

\* --------------------------------------------------- specification: mutexes
\* Two kernel threads, the change poller and a background fetch each run the
\* Lock and Unlock calls of one operation, in every interleaving.
LInit ==
    /\ readonly = FALSE
    /\ scriptC = <<1>>
    /\ content = [id \in Ids |-> IF id = "f" THEN InitContent ELSE <<>>]
    /\ remote = Drive0
    /\ TreeInit
    /\ held = [l \in Locks |-> Free]
    /\ \E a \in KPrograms, b \in KPrograms, c \in PollPrograms, d \in BgPrograms :
          lprog = ("k1" :> a) @@ ("k2" :> b) @@ ("poll" :> c) @@ ("bg" :> d)

LocksNext ==
    \/ \E t \in LThreads : LockStep(t)
    \/ \E t \in LThreads : UnlockStep(t)

SpecLocks == LInit /\ [][LocksNext]_vars

\* ------------------------------------------- specification: Truncate(size)
\* PhantomFile.Truncate called with a size of at least one byte on the phantom
\* file of f, whose remote content is any R of that many bytes or more, while
\* the file has no open-file.
TruncContents == BytesUpTo(MaxLen + 1)

\* the Truncate calls of one behaviour
MaxTruncs == 2

TruncateCall(t, size) ==
    /\ ~crashed
    /\ PFFrame
    /\ CanStart(t)
    /\ nOps < MaxTruncs
    /\ pfOf = 0 /\ handleCount = 0
    /\ size <= Len(content[pfId])
    /\ Step(t, [Idle EXCEPT !.op = "Truncate", !.pc = "topen", !.size = size])
    /\ UNCHANGED handles
    /\ HandleFrame

TrInit ==
    /\ LocksIdle
    /\ readonly = FALSE
    /\ crashed = FALSE
    /\ scriptC = <<1>>
    /\ nOps = 0
    /\ kOps = 0
    /\ remoteCalls = {}
    /\ \E r \in TruncContents : content = [id \in Ids |-> IF id = "f" THEN r ELSE <<>>]
    /\ PhantomInit
    /\ pfNode = Get(PFCache.idMap, "f")
    /\ remote = PFDrive
    /\ feed = <<>>
    /\ pageToken = 0
    /\ envOps = 0
    /\ nodes = PFCache.nodes
    /\ idMap = PFCache.idMap
    /\ inodeMap = PFCache.inodeMap
    /\ nextInode = PFCache.nextInode
    /\ known = Vals(PFCache.idMap)
    /\ kt = [k \in KThreads |-> KIdle]
    /\ cl = CLIdle

TruncNext ==
    \/ \E t \in Threads, size \in 1..(MaxLen + 1) : TruncateCall(t, size)
    \/ \E t \in Threads, tmpOK \in BOOLEAN : TruncOpen(t, tmpOK)
    \/ \E o \in DOMAIN ofs : BgFetch(o)
    \/ \E o \in DOMAIN ofs, outcome \in {"ok", "err", "cancelled"}, k \in 0..MaxLen :
          BgDownload(o, outcome, k)
    \/ \E t \in Threads : TruncFile(t)
    \/ \E t \in Threads : MarkDirty(t)
    \/ \E t \in Threads : TruncFlush(t)
    \/ \E t \in Threads : OfFlush(t)
    \/ \E t \in Threads, ok \in BOOLEAN : OfUpload(t, ok)
    \/ \E t \in Threads : TruncRelease(t)
    \/ \E t \in Threads : PfRelease(t)
    \/ \E t \in Threads, outcome \in {"ok", "closeErr", "removeErr"} : OfRelease(t, outcome)
    \/ \E t \in Threads : Reply(t)

SpecTrunc == TrInit /\ [][TruncNext]_vars

\* ===================================================================== claims
\* the nodes the system indexes under both maps
CachedNodes == Vals(idMap) \cap inodeMap

\* no request, change or goroutine step is pending: the kernel threads are idle
\* and the change loop sleeps with the feed consumed
Drained ==
    /\ ~crashed
    /\ known # {}
    /\ pageToken = Len(feed)
    /\ cl.pc = "sleep"
    /\ \A k \in KThreads : kt[k].op = "idle"

\* C4: every cached node is listed, under its id, in the children map of each of
\* its parents that is cached and has its children loaded.
C4_ParentsListChild ==
    \A i \in CachedNodes : \A p \in nodes[i].parents :
        (p[2] \in CachedNodes /\ nodes[p[2]].loaded)
            => <<nodes[i].id, i>> \in nodes[p[2]].children

\* C5: the two indices hold the same nodes and no two indexed nodes share a
\* remote id (a kernel index is the key of its node, so it is never shared).
C5_IndicesAgree ==
    /\ Vals(idMap) = inodeMap
    /\ \A i \in Vals(idMap) \cup inodeMap : \A j \in Vals(idMap) \cup inodeMap :
          nodes[i].id = nodes[j].id => i = j

\* id is a remote node the cache should hold: included, and the root or the
\* child of a cached parent with loaded children that the cache should hold
\* (followed up to `depth` parents)
RECURSIVE Expected(_, _)
Expected(id, depth) ==
    /\ id \in DOMAIN remote
    /\ IncludeNode(remote[id])
    /\ \/ id = "root"
       \/ /\ depth > 0
          /\ \E p \in remote[id].parents :
                /\ p \in Keys(idMap)
                /\ nodes[Get(idMap, p)].loaded
                /\ Expected(p, depth - 1)

ExpectedIds == {id \in Ids : Expected(id, Cardinality(Ids))}

\* C6: once the feed is drained, the cache holds exactly the remote nodes that are
\* included and reachable through cached parents with loaded children.
C6_CacheMatchesRemote ==
    Drained => (Keys(idMap) = ExpectedIds /\ {nodes[i].id : i \in inodeMap} = ExpectedIds)

\* C7: the record last applied to each cached node satisfies the inclusion
\* predicate (owned, not trashed, no '/' in the name).
C7_CachedIncluded ==
    \A i \in Vals(idMap) \cup inodeMap :
        nodes[i].owned /\ ~nodes[i].trashed /\ ~HasSlash(nodes[i].name)

\* ------------------------------------------------------------ phantom file
\* the handles whose Release has not yet gone through PhantomFile.release
Unfinished == {h \in DOMAIN handles : handles[h].decs = 0}

\* a thread is inside Release of handle h, past the compare-and-swap and before
\* the decrement in PhantomFile.release
InRelease(t, h) ==
    /\ th[t].h = h
    /\ th[t].pc \in {"flush", "up", "pfrel"}
    /\ th[t].op = "Release" \/ (th[t].op = "Truncate" /\ th[t].stage = "defer")

\* C2 as stated: an open-file exists iff some handle has its released flag false.
C2_OpenFileIffUnreleased ==
    (pfOf # 0) <=> (\E h \in DOMAIN handles : ~handles[h].released)

\* C2 amended: every handle that is not released uses the one open-file of the
\* slot, and while the phantom-file lock is free the slot is occupied iff some
\* handle has not finished its Release (released flag false, or Release still
\* between the compare-and-swap and the end of PhantomFile.release).
C2_OpenFileIffUnfinished ==
    /\ \A h \in DOMAIN handles : ~handles[h].released => (pfOf # 0 /\ handles[h].of = pfOf)
    /\ pfLock = Free =>
          /\ (pfOf # 0) <=> (Unfinished # {})
          /\ \A h \in Unfinished : handles[h].of = pfOf

\* C2 witness: every handle is released, the last Release has not reached
\* PhantomFile.release, and the open-file is still there
C2_Witness ==
    /\ pfLock = Free
    /\ pfOf # 0
    /\ handles # <<>>
    /\ \A h \in DOMAIN handles : handles[h].released
    /\ \E t \in Threads : th[t].op = "Release" /\ th[t].pc \in {"flush", "pfrel"}

\* C3: while the phantom-file lock is free the slot is occupied iff handleCount > 0
\* and handleCount = opens - completed releases; the counter never wraps.
C3_CountMatchesSlot ==
    /\ ~wrapped
    /\ pfLock = Free =>
          /\ (pfOf # 0) <=> (handleCount > 0)
          /\ handleCount = opens - releases

\* C3 witness: the last Release returned the open-file's release error and left
\* the slot empty with a count of 0
C3_Witness ==
    /\ pfLock = Free
    /\ pfOf = 0
    /\ handleCount = 0
    /\ releases > 0
    /\ \E t \in Threads : th[t].op = "Release" /\ th[t].pc = "ret" /\ th[t].ret = "EREL"

\* C9: per handle at most one Release passes the compare-and-swap and the count
\* is decremented once for it; a Release that returns Stale changes nothing.
C9_ReleaseOnce ==
    /\ [](\A h \in DOMAIN handles :
            Cardinality({t \in Threads : InRelease(t, h)}) + handles[h].decs
                = (IF handles[h].released THEN 1 ELSE 0))
    /\ [][\A t \in Threads :
            (th[t].op = "idle" /\ th'[t].op = "Release" /\ th'[t].ret = "ESTALE")
                => UNCHANGED <<pfOf, handleCount, pfLock, ofs, handles, content,
                               remoteCalls, opens, releases>>]_vars

\* C9 witness: a second Release of a handle has returned Stale while the first
\* is still in flight
C9_Witness ==
    \E t \in Threads, u \in Threads :
        /\ th[t].op = "Release" /\ th[t].pc = "ret" /\ th[t].ret = "ESTALE"
        /\ InRelease(u, th[t].h)

\* C10: Read, Write and Flush answer by released flag, then access mode, and
\* otherwise hand over to the open-file; a Flush of a handle that is not
\* writeable succeeds without touching the open-file or the remote.
C10_HandleMatrix ==
    [][\A t \in Threads : th[t].op = "idle" =>
         LET h == th'[t].h
             r == th'[t] IN
         /\ r.op = "Read" =>
               IF handles[h].released THEN r.pc = "ret" /\ r.ret = "ESTALE"
               ELSE IF handles[h].am = WriteOnly THEN r.pc = "ret" /\ r.ret = "EPERM"
               ELSE r.pc = "fetch"
         /\ r.op = "Write" =>
               IF handles[h].released THEN r.pc = "ret" /\ r.ret = "ESTALE"
               ELSE IF handles[h].am = ReadOnly THEN r.pc = "ret" /\ r.ret = "EPERM"
               ELSE r.pc = "fetch"
         /\ r.op = "Flush" =>
               IF handles[h].released THEN r.pc = "ret" /\ r.ret = "ESTALE"
               ELSE IF handles[h].am = ReadOnly
               THEN r.pc = "ret" /\ r.ret = "OK" /\ UNCHANGED <<ofs, content, remoteCalls>>
               ELSE r.pc = "flush"]_vars

\* C10 witness: a Flush of a ReadOnly handle has succeeded while the open-file it
\* shares is dirty
C10_Witness ==
    \E t \in Threads :
        /\ th[t].op = "Flush" /\ th[t].pc = "ret" /\ th[t].ret = "OK"
        /\ handles[th[t].h].am = ReadOnly
        /\ ~handles[th[t].h].released
        /\ ofs[handles[th[t].h].of].dirty

\* ------------------------------------------------------------------- mount
\* a directory-mutating request that thread k takes in this step is answered
\* NotSupported at once, with the cache, the remote and the phantom file untouched
RefusedAtOnce(k) ==
    (kt[k].op = "idle" /\ kt'[k].op \in {"Create", "Mkdir", "Rename", "Remove"})
        => /\ kt'[k].pc = "ret"
           /\ kt'[k].ret = "ENOTSUP"
           /\ UNCHANGED <<remote, feed, content, remoteCalls, nodes, idMap, inodeMap,
                          nextInode, pfOf, ofs, handles, handleCount, opens>>

\* thread t takes an Open that asks for writeable access in this step
WriteOpen(t) == th[t].op = "idle" /\ th'[t].op = "Open" /\ th'[t].req # <<>> /\ th'[t].req[1]

C1_RoundTrip ==
    /\ \A t \in Threads : (th[t].op = "Read" /\ th[t].pc = "ret") =>
           (th[t].ret = "OK" /\ th[t].rdata = scriptC)
    /\ (ofs # <<>> /\ ofs[1].closed) => content[pfId] = scriptC
    /\ (Len(ofs) = 2 /\ ofs[2].done) => ofs[2].tmp = scriptC

\* C1 witness: the Read has returned the content written, from a second
\* open-file that downloaded it after the first was discarded
C1_Witness ==
    /\ th["t1"].op = "Read" /\ th["t1"].pc = "ret"
    /\ th["t1"].ret = "OK" /\ th["t1"].rdata = scriptC
    /\ Len(scriptC) = MaxLen + 1
    /\ Len(ofs) = 2 /\ ofs[1].closed /\ ofs[2].downloads = 1
    /\ "upload" \in remoteCalls

\* ----------------------------------------------------------------- fetcher
\* the fetch() calls that are inside the download of openFile o
Downloading(o) ==
    Cardinality({t \in Threads : th[t].pc = "dl" /\ handles[th[t].h].of = o})
        + (IF ofs[o].bg = "dl" THEN 1 ELSE 0)

\* thread t returns from the fetch() of openFile o in this step
FetchReturns(t, o) ==
    /\ th[t].pc \in {"fetch", "dl"}
    /\ handles[th[t].h].of = o
    /\ th'[t].pc = "io"

\* C11: a fetcher downloads at most once; the download runs under the fetcher's
\* lock, so at most one fetch() is inside it and the others wait; once the
\* fetcher is done its outcome never changes, no download follows (also after
\* one that failed), and every fetch() returns the stored outcome.
C11_DownloadOnce ==
    /\ [](\A o \in DOMAIN ofs :
            /\ ofs[o].downloads <= 1
            /\ Downloading(o) = (IF ofs[o].mu # Free THEN 1 ELSE 0)
            /\ (ofs[o].mu # Free) => ~ofs[o].done)
    /\ [][\A o \in DOMAIN ofs :
            /\ ofs[o].done =>
                  /\ ofs'[o].done
                  /\ ofs'[o].err = ofs[o].err
                  /\ ofs'[o].downloads = ofs[o].downloads
            /\ \A t \in Threads : FetchReturns(t, o) =>
                  /\ ofs'[o].done
                  /\ th'[t].ferr = fetchResult(ofs'[o].err)]_vars

\* C11 witness: two threads have returned from fetch() with the error of the
\* one download, which failed
C11_Witness ==
    \E o \in DOMAIN ofs :
        /\ ofs[o].downloads = 1 /\ ofs[o].done /\ ofs[o].err = "EDL"
        /\ \A t \in Threads :
              th[t].pc = "io" /\ handles[th[t].h].of = o /\ th[t].ferr = "EDL"

\* this step starts no download of openFile o if its token is cancelled
NoDownloadAfterCancel(o) == ofs[o].cancelled => ofs'[o].downloads = ofs[o].downloads

\* thread t calls fetch() in this step, on an openFile whose abort() has returned
FetchAfterAbort(t) ==
    th[t].pc = "fetch" /\ th'[t] # th[t] /\ ofs[handles[th[t].h].of].closed

\* what C12 says of abort() itself: it returns (the openFile goes on to close
\* its file) only with the fetcher done and no download in flight, and a
\* cancelled fetcher starts no download
AbortIsSynchronous ==
    /\ [](\A o \in DOMAIN ofs :
            ofs[o].closed => (ofs[o].done /\ ofs[o].cancelled /\ ofs[o].mu = Free
                              /\ Downloading(o) = 0))
    /\ [][\A o \in DOMAIN ofs : NoDownloadAfterCancel(o)]_vars

Applies == cl.pc = "page" /\ cl.page # <<>> /\ cl' # cl

\* the cached parents of record g whose children are loaded
ReadyParents(g) == {pid \in g.parents : pid \in Keys(idMap) /\ nodes[Get(idMap, pid)].loaded}

\* the children map of every node object, by kernel index
ChildMaps(ns) == [i \in DOMAIN ns |-> ns[i].children]

\* C13: processChange of a record that is neither removed nor trashed, for an id
\* that is not cached, inserts a node if and only if a parent of the record is
\* cached with its children loaded. An insert puts the node in both indices and
\* in the children map of every such parent, and adds 1 to changed only.
\* Otherwise the indices and all children maps stay as they are, and 1 is added
\* to ignored only.
C13_InsertIffReadyParent ==
    [][(Applies /\ Head(cl.page).node # <<>>) =>
        LET ch == Head(cl.page)
            g == ch.node[1]
        IN (~ch.removed /\ ~g.trashed /\ ch.id \notin Keys(idMap)) =>
           IF ReadyParents(g) # {}
           THEN /\ ch.id \in Keys(idMap')
                /\ Get(idMap', ch.id) \in inodeMap' \ DOMAIN nodes
                /\ nodes'[Get(idMap', ch.id)].id = ch.id
                /\ \A pid \in ReadyParents(g) :
                      <<ch.id, Get(idMap', ch.id)>> \in nodes'[Get(idMap, pid)].children
                /\ cl'.cs = [changed |-> cl.cs.changed + 1, ignored |-> cl.cs.ignored]
           ELSE /\ idMap' = idMap /\ inodeMap' = inodeMap
                /\ ChildMaps(nodes') = ChildMaps(nodes)
                /\ cl'.cs = [changed |-> cl.cs.changed, ignored |-> cl.cs.ignored + 1]]_vars

\* C13 witness: the only directory request ever made listed the root without
\* the file another client then added to it, and processChange has inserted
\* that file: it is in both indices and in the root's children map
C13_Witness ==
    /\ kOps = 1 /\ kt["k1"].op = "ReadDirAll" /\ kt["k1"].pc = "ret"
    /\ cl.pc = "page" /\ cl.cs = [changed |-> 1, ignored |-> 0]
    /\ \E p \in idMap :
          /\ p[2] \in inodeMap
          /\ p[2] \notin kt["k1"].rlist
          /\ p \in nodes[kt["k1"].n].children

\* ---------------------------------------------------------------- removeNode
\* kernel thread k's Remove removes its child in this step, the trash done
KRemoves(k) == kt[k].op = "Remove" /\ kt[k].pc = "rm" /\ kt'[k].pc = "ret"

\* processChange removes a cached node in this step: the change is a removal
\* or carries a trashed record
ChangeRemoves ==
    /\ Applies /\ Head(cl.page).node # <<>>
    /\ Head(cl.page).removed \/ Head(cl.page).node[1].trashed
    /\ Head(cl.page).id \in Keys(idMap)

\* the loaded parents of node i, by its parents map or by its remote record, that
\* list it after this step
StillListedIn(i) ==
    {p \in DOMAIN nodes' :
        /\ nodes'[p].loaded /\ i \in Vals(nodes'[p].children)
        /\ \/ nodes[p].id \in Keys(nodes[i].parents)
           \/ nodes[i].id \in DOMAIN remote /\ nodes[p].id \in remote[nodes[i].id].parents}

\* after this step node i is in neither index nor in the children of a loaded
\* parent
Gone(i) ==
    /\ nodes[i].id \notin Keys(idMap')
    /\ i \notin Vals(idMap')
    /\ i \notin inodeMap'
    /\ StillListedIn(i) = {}

\* after this step findChild and ReadDirAll of directory p do not return node i
NotFoundIn(p, i) == i \notin Vals(nodes'[p].children)

\* C14: a node removed by Remove after the remote trash, or by processChange of
\* a removal or of a trashed record for a cached id, is then in neither index
\* and in no loaded parent's children map; Lookup of its name in the directory
\* it was removed from does not find it and ReadDirAll does not list it; a
\* removal by processChange adds exactly 1 to changed.
C14_RemovedIsGone ==
    [][/\ \A k \in KThreads : KRemoves(k) =>
             (Gone(kt[k].child) /\ NotFoundIn(kt[k].n, kt[k].child))
       /\ ChangeRemoves =>
             /\ Gone(Get(idMap, Head(cl.page).id))
             /\ cl'.cs = [changed |-> cl.cs.changed + 1, ignored |-> cl.cs.ignored]]_vars

\* ------------------------------------------------------------------- Rename
\* what findChild(name) of directory i can return, the node objects being ns
ChildrenNamed(ns, i, name) == {p[2] : p \in {q \in ns[i].children : ns[q[2]].name = name}}

\* kernel thread k's Rename returns success in this step: the remote rename is
\* done and child.update has run
Renamed(k) ==
    kt[k].op = "Rename" /\ kt[k].pc = "upd" /\ kt'[k].pc = "ret" /\ kt'[k].ret = "OK"

\* the rename of thread k moves the child to a different directory
AcrossParents(k) == nodes[kt[k].n].id # nodes[kt[k].newDir].id

\* C15: after a successful Rename of a cached child, Lookup of the new name in
\* the target directory returns that child and Lookup of the old name in the
\* source directory returns NotFound; after a rename across parents the child
\* is out of the old parent's children map and in the new parent's.
C15_RenameThenLookup ==
    [][\A k \in KThreads : Renamed(k) =>
          LET src == kt[k].n
              dst == kt[k].newDir
              c == kt[k].child
          IN /\ nodes'[dst].loaded => ChildrenNamed(nodes', dst, kt[k].newName) = {c}
             /\ (AcrossParents(k) \/ kt[k].name # kt[k].newName) =>
                    ChildrenNamed(nodes', src, kt[k].name) = {}
             /\ AcrossParents(k) =>
                    /\ c \notin Vals(nodes'[src].children)
                    /\ nodes'[dst].loaded => c \in Vals(nodes'[dst].children)]_vars

\* kernel thread k's Rename calls the driver's rename in this step
CallsRename(k) ==
    kt[k].op = "Rename" /\ kt[k].pc = "body" /\ kt'[k].pids # <<>>

\* C16: a Rename whose new parent is the directory it is issued on hands the
\* driver empty old-parent and new-parent ids; parent ids are handed over, both
\* non-empty, only when the two directories differ.
C16_SameParentNoIds ==
    [][\A k \in KThreads : CallsRename(k) =>
          LET oldP == kt'[k].pids[1]
              newP == kt'[k].pids[2]
          IN /\ kt[k].newDir = kt[k].n => (oldP = "" /\ newP = "")
             /\ (oldP # "" \/ newP # "") =>
                   /\ oldP # "" /\ newP # ""
                   /\ kt[k].newDir # kt[k].n
                   /\ oldP = nodes[kt[k].n].id /\ newP = nodes[kt[k].newDir].id]_vars

\* C16 witness: a Rename within one directory has called the driver with both
\* parent ids empty
C16_Witness ==
    \E k \in KThreads :
        /\ kt[k].op = "Rename" /\ kt[k].pc = "upd"
        /\ kt[k].newDir = kt[k].n
        /\ kt[k].pids = <<"", "">>

\* ---------------------------------------------------------------- the root
\* the root node system.Root returned to the server
RootNodes == {i \in known : nodes[i].id = "root"}

\* C17: once Root has returned the root node, no change the feed delivers makes
\* processChange remove it: the root stays in both indices, also after a
\* trashed or IncludeNode-failing change that carries the root's id.
C17_RootStaysCached ==
    known # {} => \E i \in RootNodes : <<"root", i>> \in idMap /\ i \in inodeMap

\* ------------------------------------------------------ loadChildrenIfEmpty
\* every change published so far has been handed to processChange
FeedHandled ==
    \/ cl.pc = "sleep" /\ pageToken = Len(feed)
    \/ cl.pc # "sleep" /\ cl.pos = Len(feed) /\ cl.page = <<>>

\* kernel thread k's loadChildrenIfEmpty installs the children map in this step
LoadCompletes(k) == kt[k].pc = "kids" /\ kt[k].gs = <<>> /\ kt'[k].pc = "body"

\* the ids of the children of directory i the remote would list now
RemoteChildren(i) == {g.id : g \in FetchChildren(nodes[i].id)}

\* C18: no ignored change is lost. When loadChildrenIfEmpty of a directory
\* completes, all changes so far having been handed to processChange, its
\* children map holds every included, untrashed remote child of the directory
\* and no child that is gone or trashed remotely, however the load interleaves
\* with processChange and with a second load of the directory.
C18_LoadSeesEveryChild ==
    [][\A k \in KThreads : (LoadCompletes(k) /\ FeedHandled) =>
          LET listed == Keys(nodes'[kt[k].n].children) IN
          /\ RemoteChildren(kt[k].n) \subseteq listed
          /\ \A id \in listed : id \in DOMAIN remote /\ ~remote[id].trashed]_vars

\* ----------------------------------------------------------- watchForChanges
\* ProcessChanges returns an error to the polling loop in this step, on a page
\* after the first of the call
ListFails == cl.pc = "list" /\ cl'.pc = "sleep"

\* C19: when ProcessChanges returns an error to the polling loop, the loop ends
\* the process if at least one change of that call had been applied; with no
\* change applied it logs the error, the process keeps running and the loop
\* calls ProcessChanges again after its next sleep.
C19_FatalIffApplied ==
    [][ListFails =>
          IF cl.cs.changed >= 1 THEN crashed'
          ELSE ~crashed' /\ cl' = CLIdle /\ pageToken' = pageToken]_vars

\* ------------------------------------------------------ Open with O_TRUNC
\* thread t's Open returns a handle in this step for a writeable access mode;
\* node.Open grants one only with the truncate flag
TruncatingOpen(t) ==
    /\ th[t].op = "idle"
    /\ th'[t].op = "Open" /\ th'[t].pc = "ret" /\ th'[t].ret = "OK"
    /\ th'[t].req[1]

\* C20: after a successful Open with a writeable access mode and the truncate
\* flag the openFile of the node has size 0 and is marked dirty, also when it
\* existed before with downloaded content, so that a Release without a write
\* uploads empty content.
C20_OpenTruncates ==
    [][\A t \in Threads : TruncatingOpen(t) =>
          LET o == handles'[th'[t].rh].of IN
          ofs'[o].tmp = <<>> /\ ofs'[o].dirty]_vars

\* ------------------------------------------------------------ Open, refused
\* thread t's Open of a file returns in this step (Truncate takes over when a
\* truncating open failed)
FileOpenReturns(t) ==
    /\ th[t].op = "idle" /\ th'[t].op \in {"Open", "Truncate"}
    /\ th'[t].req # <<>> /\ ~th'[t].req[3]

\* this step creates no handle and no openFile
NothingOpened == handles' = handles /\ ofs' = ofs /\ pfOf' = pfOf /\ handleCount' = handleCount

\* C21 as stated: an Open of a file with ReadWrite access mode, and one with
\* WriteOnly access mode without the truncate flag, returns EACCES and creates
\* no handle and no openFile, whatever the other flags are.
C21_WriteOpenDenied ==
    [][\A t \in Threads : FileOpenReturns(t) =>
          /\ (th'[t].req[1] /\ ~th'[t].req[4]) =>
                (th'[t].ret = "EACCES" /\ NothingOpened)
          /\ \A h \in DOMAIN handles' \ DOMAIN handles : handles'[h].am # ReadWrite]_vars

\* C21 amended: an Open of a file with a writeable access mode (WriteOnly or
\* ReadWrite) without the truncate flag creates no handle and no openFile; it
\* returns EACCES, except that the exclusive flag gives ENOTSUP and, without
\* that flag, a read-only mount gives EPERM. No other Open returns EACCES.
C21_UntruncatedWriteDenied ==
    [][\A t \in Threads : FileOpenReturns(t) =>
          /\ (th'[t].req[1] /\ ~th'[t].req[4]) =>
                /\ NothingOpened
                /\ th'[t].ret = (IF th'[t].req[2] THEN "ENOTSUP"
                                 ELSE IF readonly THEN "EPERM" ELSE "EACCES")
          /\ th'[t].ret = "EACCES" => (th'[t].req[1] /\ ~th'[t].req[4])]_vars

\* C21 witness: an Open for writing without the truncate flag was refused with
\* EACCES on a writeable mount that has no handle and no openFile
C21_Witness ==
    \E t \in Threads :
        /\ th[t].op = "Open" /\ th[t].pc = "ret" /\ th[t].ret = "EACCES"
        /\ th[t].req[1] /\ ~th[t].req[4]
        /\ ~readonly /\ handles = <<>> /\ ofs = <<>>

\* ------------------------------------------------------ Open of a directory
\* thread t's Open of a directory returns in this step
DirOpenReturns(t) ==
    th[t].op = "idle" /\ th'[t].op = "Open" /\ th'[t].req # <<>> /\ th'[t].req[3]

\* C22: an Open of a directory with a read-only access mode returns the node
\* itself as the handle and creates no openFile; an Open of a directory with a
\* writeable access mode (WriteOnly or ReadWrite) returns ENOTSUP.
C22_DirOpenByMode ==
    [][\A t \in Threads : DirOpenReturns(t) =>
          /\ NothingOpened
          /\ th'[t].ret = (IF th'[t].req[1] THEN "ENOTSUP" ELSE "OKDir")]_vars

\* ------------------------------------------------------ Truncate to size 0
\* thread t's Truncate opens the phantom file in this step and, the node having
\* no openFile, constructs one
TruncateBuilds(t) == th[t].pc = "topen" /\ th'[t] # th[t] /\ pfOf = 0 /\ pfOf' # 0

\* thread t's Truncate(0) runs openFile.flush in this step, its handle being
\* the only one the phantom file has ever issued
TruncateFlushes(t) ==
    /\ th[t].op = "Truncate" /\ th[t].stage = "main" /\ th[t].pc = "flush"
    /\ th[t].size = 0 /\ th'[t] # th[t]
    /\ opens = 1

\* C23: Truncate(0) of a phantom file that has no openFile never downloads. The
\* openFile is built with NoFetch, its fetcher done from the start, and a done
\* fetcher that has not downloaded never does; the flush of the truncate
\* uploads empty content.
C23_TruncateNeverDownloads ==
    /\ [][\A t \in Threads : TruncateBuilds(t) =>
            /\ ofs'[pfOf'].done /\ ofs'[pfOf'].bg = "none"
            /\ ofs'[pfOf'].downloads = 0 /\ ofs'[pfOf'].mu = Free]_vars
    /\ [][\A o \in DOMAIN ofs : (ofs[o].done /\ ofs[o].downloads = 0) =>
            (ofs'[o].done /\ ofs'[o].downloads = 0)]_vars
    /\ [][\A t \in Threads : TruncateFlushes(t) =>
            (th'[t].pc = "up" /\ th'[t].snap = <<>>)]_vars

\* C23 witness: a Truncate(0) that built the openFile itself has truncated,
\* uploaded empty content over the remote content and is about to release, and
\* nothing was downloaded
C23_Witness ==
    \E t \in Threads :
        /\ th[t].op = "Truncate" /\ th[t].stage = "defer" /\ th[t].tres = "nil"
        /\ opens = 1 /\ pfOf # 0
        /\ ofs[pfOf].downloads = 0
        /\ "upload" \in remoteCalls /\ content[pfId] = <<>>


\* ---------------------------------------------------------------------------
\* thread t's Release, having won the released flag, takes the step that ends
\* its openFile.flush
ReleaseFlushEnds(t) ==
    /\ th[t].op = "Release" /\ th[t].pc \in {"flush", "up"}
    /\ th'[t] # th[t] /\ th'[t].pc # "up"

\* thread t's Release takes the PhantomFile.release step that decrements
ReleaseDecrements(t) ==
    /\ th[t].op = "Release" /\ th[t].pc = "pfrel"
    /\ handles'[th[t].h].decs # handles[th[t].h].decs

\* what Release answers for the flush error fe and the phantom release error e
ReleaseAnswer(fe, e) == IF fe # "nil" THEN fe ELSE IF e = "nil" THEN "OK" ELSE e

\* C24: a Release that won the released flag goes on to PhantomFile.release
\* whatever its flush returned; that release decrements handleCount and, for the
\* last handle, aborts the fetcher and discards the openFile; the Release
\* answers the flush error when there is one, else the phantom release's error.
C24_ReleaseAfterFlushError ==
    /\ [][\A t \in Threads : ReleaseFlushEnds(t) =>
            /\ th'[t].op = "Release" /\ th'[t].pc = "pfrel"
            /\ isWriteable(handles[th[t].h].am)
            /\ handleCount' = handleCount /\ pfOf' = pfOf]_vars
    /\ [][\A t \in Threads : ReleaseDecrements(t) =>
            /\ ~crashed'
            /\ handleCount' = Uint32Dec(handleCount)
            /\ IF Uint32Positive(handleCount')
               THEN /\ th'[t] = Return("Release", th[t].h, ReleaseAnswer(th[t].flushErr, "nil"))
                    /\ pfOf' = pfOf /\ ofs' = ofs
               ELSE /\ th'[t].pc = "abort" /\ th'[t].flushErr = th[t].flushErr
                    /\ ofs'[pfOf].cancelled]_vars
    /\ [][\A t \in Threads :
            (th[t].op = "Release" /\ th[t].pc = "abort" /\ th'[t] # th[t]) =>
                /\ pfOf' = 0 /\ ofs'[pfOf].closed
                /\ \E e \in {"nil", "EREL"} :
                       th'[t] = Return("Release", th[t].h, ReleaseAnswer(th[t].flushErr, e))]_vars

\* a writeable handle's Release whose flush failed has discarded the openFile
\* as the last handle and answered the flush error
C24_Witness ==
    \E t \in Threads :
        /\ th[t].op = "Release" /\ th[t].pc = "ret" /\ th[t].ret = "EUP"
        /\ isWriteable(handles[th[t].h].am)
        /\ handleCount = 0 /\ pfOf = 0

\* ---------------------------------------------------------------------------
\* kernel thread k's Create, Mkdir, Rename or Remove has called the driver
\* (create_node, rename or trash) and returns in this step without going on to
\* the cache: the call returned an error
RemoteCallFails(k) ==
    /\ kt[k].op \in {"Create", "Mkdir", "Rename", "Remove"}
    /\ kt[k].pc = "body" /\ kt'[k].pc = "ret"
    /\ kt[k].op \in {"Rename", "Remove"} => findChild(kt[k].n, kt[k].name) # {}

\* the driver call of an operation
DriverCall(op) == IF op = "Rename" THEN "rename"
                  ELSE IF op = "Remove" THEN "trash" ELSE "create_node"

\* C25: when the create_node, rename or trash call of Create, Mkdir, Rename or
\* Remove fails, the operation answers an error and byID, byHandle and every
\* node's name, parents and children are those of before the call.
C25_RemoteErrorKeepsCache ==
    [][\A k \in KThreads : RemoteCallFails(k) =>
          /\ DriverCall(kt[k].op) \in remoteCalls'
          /\ kt'[k].ret \in {"EIO", "ERemote"}
          /\ kt'[k].rnode = 0 /\ kt'[k].rh = 0
          /\ idMap' = idMap /\ inodeMap' = inodeMap /\ nodes' = nodes]_vars

\* a Remove has answered the error of its trash call, the directory still
\* listing a child and nothing trashed remotely
C25_Witness ==
    \E k \in KThreads :
        /\ kt[k].op = "Remove" /\ kt[k].pc = "ret" /\ kt[k].ret = "ERemote"
        /\ "trash" \in remoteCalls
        /\ nodes[kt[k].n].loaded /\ nodes[kt[k].n].children # {}
        /\ \A i \in DOMAIN remote : ~remote[i].trashed


\* ---------------------------------------------------------------------------
\* the parents update of node i with record g adds that are cached with their
\* children never loaded
UnloadedNewParents(i, g) ==
    {np \in NewParents(Cache, i, g) : ~haveChildren(Cache, Get(idMap, np))}

\* after the step node i has every such parent, whose children are still absent
GainsUnloaded(i, g) ==
    \A np \in UnloadedNewParents(i, g) :
        /\ <<np, Get(idMap, np)>> \in nodes'[i].parents
        /\ ~nodes'[Get(idMap, np)].loaded

\* C26: update of a cached node with a record that adds a parent P, cached but
\* with its children never loaded, completes normally: the node gains P, the
\* children of P stay absent and the process goes on. The update is the one of
\* processChange, of getOrMakeNode in loadChildrenIfEmpty, or of Rename.
C26_UpdateAddsUnloadedParent ==
    /\ [][(/\ cl.pc = "page" /\ cl.page # <<>> /\ Head(cl.page).node # <<>>
           /\ ChangeCase(Cache, Head(cl.page)) = "update"
           /\ UnloadedNewParents(Get(idMap, Head(cl.page).id), Head(cl.page).node[1]) # {}
           /\ \A k \in KThreads : kt[k].pc # "rm"
           /\ (cl' # cl \/ crashed')) =>
              /\ ~crashed'
              /\ GainsUnloaded(Get(idMap, Head(cl.page).id), Head(cl.page).node[1])]_vars
    /\ [][\A k \in KThreads :
            (/\ kt[k].pc = "kids" /\ kt[k].gs # <<>> /\ kt'[k] # kt[k]
             /\ Head(kt[k].gs).id \in Keys(idMap)
             /\ UnloadedNewParents(Get(idMap, Head(kt[k].gs).id), Head(kt[k].gs)) # {}) =>
                /\ kt'[k].pc = "kids"
                /\ GainsUnloaded(Get(idMap, Head(kt[k].gs).id), Head(kt[k].gs))]_vars
    /\ [][\A k \in KThreads :
            (/\ kt[k].op = "Rename" /\ kt[k].pc = "upd" /\ kt'[k] # kt[k]
             /\ UnloadedNewParents(kt[k].child, kt[k].g[1]) # {}) =>
                /\ kt'[k].ret = "OK"
                /\ GainsUnloaded(kt[k].child, kt[k].g[1])]_vars

\* ---------------------------------------------------------------------------
\* the cached parents of node i whose children are absent
UnloadedParents(i) == {p \in nodes[i].parents : ~nodes[p[2]].loaded}

\* after the step node i is in neither index nor in any loaded children map of
\* the parents it had
Erased(i) ==
    /\ nodes[i].id \notin Keys(idMap') /\ i \notin inodeMap'
    /\ \A p \in nodes[i].parents : nodes[i].id \notin Keys(nodes'[p[2]].children)

\* C27: removeNode skips the parents whose children are absent. Removing a node
\* that has a cached parent with unloaded children erases it from both indices
\* and from every loaded parent's children map and returns, the process going
\* on; the removal is the one of Remove or of processChange.
C27_RemoveSkipsUnloaded ==
    /\ [][\A k \in KThreads :
            (/\ kt[k].op = "Remove" /\ kt[k].pc = "rm"
             /\ UnloadedParents(kt[k].child) # {}
             /\ cl' = cl
             /\ (kt'[k] # kt[k] \/ crashed')) =>
                /\ ~crashed' /\ kt'[k].ret = "OK" /\ Erased(kt[k].child)]_vars
    /\ [][(/\ cl.pc = "page" /\ cl.page # <<>> /\ Head(cl.page).node # <<>>
           /\ ChangeCase(Cache, Head(cl.page)) = "remove"
           /\ UnloadedParents(Get(idMap, Head(cl.page).id)) # {}
           /\ \A k \in KThreads : kt[k].pc # "rm"
           /\ (cl' # cl \/ crashed')) =>
              /\ ~crashed' /\ Erased(Get(idMap, Head(cl.page).id))]_vars

\* ---------------------------------------------------------------------------
\* thread t is inside Lock, the mutex being held
Waits(t) ==
    /\ lprog[t] # <<>> /\ Head(lprog[t])[1] = "Lock"
    /\ held[Head(lprog[t])[2]] # Free

\* the thread that holds the mutex t waits for
WaitsFor(t) == held[Head(lprog[t])[2]]

\* C28: no reachable state holds a cycle of threads each waiting for a mutex the
\* next one holds, over system.mu, node.mu, node.cmu, PhantomFile.mu,
\* openFile.dirtyMu and fetcher.mu, whatever two kernel operations, change of the
\* poller and background fetch interleave.
C28_NoLockCycle ==
    \A S \in SUBSET LThreads :
        S # {} => \E t \in S : ~(Waits(t) /\ WaitsFor(t) \in S)

\* Attr holds the node's lock and waits for the phantom file's lock, whose
\* holder, a Release, waits for the fetcher's lock, held by the background fetch
C28_Witness ==
    \E t, u \in LThreads :
        /\ Waits(t) /\ WaitsFor(t) = u
        /\ held[NodeMu(1)] = t /\ Head(lprog[t])[2] = PfMu(1)
        /\ Waits(u) /\ WaitsFor(u) = "bg"
        /\ Head(lprog[u])[2] = FetcherMu(1)
        /\ ~Waits("bg")

\* ---------------------------------------------------------------------------
\* a write or a truncate of the phantom file is in progress
Writing == \E t \in Threads : th[t].op \in {"Write", "Truncate"} /\ th[t].pc # "ret"

\* what the temp file of openFile o holds when nothing was ever written to it:
\* nothing when no download ran or has returned yet, else what the download wrote
InitialContent(o) ==
    IF ofs[o].downloads = 0 \/ ~ofs[o].done THEN {<<>>}
    ELSE IF ofs[o].err = "nil" THEN {content[pfId]}
    ELSE {Prefix(content[pfId], k) : k \in 0..Len(content[pfId])}

\* for the openFile of the phantom file, no write or truncate being in progress
\* and the dirty flag being false, the temp file holds what the last successful
\* upload sent, or its initial content
CleanMeansUploaded ==
    (pfOf # 0 /\ ~ofs[pfOf].closed /\ ~Writing /\ ~ofs[pfOf].dirty) =>
        \/ ofs[pfOf].tmp = content[pfId]
        \/ ofs[pfOf].tmp \in InitialContent(pfOf)

\* thread t's write returns in this step, its data being in the temp file
WriteReturns(t) == th[t].op = "Write" /\ th[t].pc = "dirty" /\ th'[t] # th[t]

\* C29: under any interleaving of write, truncate and flush from different
\* handles of one openFile, whenever no write or truncate is in progress and the
\* dirty flag is false, the temp file holds what the last successful upload sent
\* (or the initial content when nothing was ever written); and a write leaves
\* the dirty flag set when it returns, also when its data landed after a
\* concurrent upload had read the file.
C29_DirtyProtocol ==
    /\ []CleanMeansUploaded
    /\ [][\A t \in Threads : WriteReturns(t) => ofs'[handles[th[t].h].of].dirty]_vars


\* ---------------------------------------------------------------------------
\* thread t enters openFile.flush in this step
FlushEnters(t) == th[t].pc = "flush" /\ th'[t] # th[t]

\* thread t's du.Upload returns in this step
UploadReturns(t) == th[t].pc = "up" /\ th'[t] # th[t]

\* C30: openFile.flush calls Upload if and only if the dirty flag is set; it
\* clears the flag only when Upload succeeded and leaves it set when Upload
\* failed; so a Flush or Release of an openFile with no write or truncate since
\* the last successful upload uploads nothing.
C30_FlushIffDirty ==
    /\ [][\A t \in Threads : FlushEnters(t) =>
            LET o == handles[th[t].h].of IN
            IF ofs[o].dirty
            THEN \/ /\ th'[t] = [th[t] EXCEPT !.pc = "up", !.snap = ofs[o].tmp]
                    /\ "upload" \in remoteCalls'
                 \/ /\ th'[t] = AfterFlush(th[t], "EUP")
                    /\ ofs[o].closed /\ ofs'[o].dirty
            ELSE /\ th'[t] = AfterFlush(th[t], "nil")
                 /\ remoteCalls' = remoteCalls /\ content' = content
                 /\ ofs' = ofs]_vars
    /\ [][\A t \in Threads : UploadReturns(t) =>
            LET o == handles[th[t].h].of IN
            \/ /\ th'[t] = AfterFlush(th[t], "nil")
               /\ ~ofs'[o].dirty /\ content'[pfId] = th[t].snap
            \/ /\ th'[t] = AfterFlush(th[t], "EUP")
               /\ ofs[o].dirty /\ ofs'[o].dirty /\ content' = content]_vars

\* a writeable handle was released with nothing written: nothing was uploaded;
\* no upload was ever called
C30_Witness ==
    \E t \in Threads :
        /\ th[t].op = "Release" /\ th[t].pc = "ret" /\ th[t].ret = "OK"
        /\ isWriteable(handles[th[t].h].am)
        /\ "upload" \notin remoteCalls
        /\ content[pfId] = InitContent

\* ---------------------------------------------------------------------------
\* C31: within Release of a writeable handle the upload of dirty content has
\* finished, well or not, before PhantomFile.release decrements handleCount,
\* aborts the fetcher or closes and unlinks the temp file; no upload that the
\* Release starts reads a temp file that is closed already.
C31_UploadBeforeRelease ==
    /\ [](\A t \in Threads : (InRelease(t, th[t].h) /\ th[t].pc \in {"flush", "up"}) =>
            LET o == handles[th[t].h].of IN
            /\ handles[th[t].h].decs = 0
            /\ th[t].pc = "up" => (~ofs[o].closed /\ ~ofs[o].cancelled /\ pfOf = o))
    /\ [][\A t \in Threads :
            (InRelease(t, th[t].h) /\ th[t].pc = "flush" /\ th'[t].pc = "up") =>
                ~ofs[handles[th[t].h].of].closed]_vars
    /\ [][\A t \in Threads :
            (InRelease(t, th[t].h) /\ handles'[th[t].h].decs # handles[th[t].h].decs) =>
                th[t].pc = "pfrel"]_vars

\* the Release of the last handle, a writeable one, has uploaded what was written
\* and then closed the temp file and emptied the slot
C31_Witness ==
    \E t \in Threads :
        /\ th[t].op = "Release" /\ th[t].pc = "ret" /\ th[t].ret = "OK"
        /\ isWriteable(handles[th[t].h].am)
        /\ ofs[handles[th[t].h].of].closed /\ pfOf = 0
        /\ "upload" \in remoteCalls /\ content[pfId] # InitContent

\* ---------------------------------------------------------------------------
\* thread t's Read, Write or Flush, past the released check, comes to the temp
\* file in this step: ReadAt, WriteAt, or the Upload of a dirty file
TouchesTemp(t) ==
    /\ th[t].op \in {"Read", "Write", "Flush"}
    /\ th'[t] # th[t]
    /\ \/ th[t].pc = "io"
       \/ th[t].pc = "flush" /\ ofs[handles[th[t].h].of].dirty

\* C32: also when Read, Write or Flush of a handle run together with Release of
\* the same handle, an operation that passed the released check never reads,
\* writes or uploads the temp file once PhantomFile.release has closed and
\* unlinked it.
C32_NoUseAfterClose ==
    [][\A t \in Threads : TouchesTemp(t) => ~ofs[handles[th[t].h].of].closed]_vars

\* ---------------------------------------------------------------------------
\* thread t's Truncate of one byte or more truncates the temp file in this step
TruncatesTemp(t) == th[t].pc = "ttrunc" /\ th[t].size > 0 /\ th'[t] # th[t]

\* C33: Truncate(n), n > 0, of a phantom file with no open-file and remote
\* content R of n bytes or more uploads the first n bytes of R: the truncation
\* and the upload come only after the proactive download has completed, however
\* the background fetch interleaves with truncate, flush and release.
C33_TruncateAfterDownload ==
    /\ [][\A t \in Threads : TruncatesTemp(t) =>
            /\ ofs[handles[th[t].h].of].done
            /\ ofs[handles[th[t].h].of].downloads = 1]_vars
    /\ [][\A t \in Threads :
            (th[t].op = "Truncate" /\ th[t].pc = "flush" /\ th'[t].pc = "up") =>
                /\ ofs[handles[th[t].h].of].done
                /\ th'[t].snap = Prefix(content[pfId], th[t].size)]_vars

\* ---------------------------------------------------------------------------
\* ProcessChanges has handled every change of a page and ends the page in this step
PageDone == cl.pc = "page" /\ cl.page = <<>> /\ cl'.pc # "page"

\* C34: ProcessChanges advances the stored page token after each page it has
\* processed, so that after a failure on a later page the next call starts
\* after the last fully processed page and hands none of its changes to the
\* handler again.
C34_CursorAfterEachPage ==
    /\ [][PageDone => pageToken' = cl.pos]_vars
    /\ [][ListFails => (pageToken' = cl.pos /\ pageToken' = pageToken)]_vars

\* ---------------------------------------------------------------------------
\* what the handler does with a change that is removed and has no record: the
\* cached node of its id is removed and counted
RemovedHandled(ch) ==
    /\ ch.removed
    /\ ch.id \in Keys(idMap) =>
          /\ ch.id \notin Keys(idMap')
          /\ cl'.cs.changed = cl.cs.changed + 1

\* C35: ProcessChanges calls the handler once, in the order of the feed, for
\* every change of every page it fetched, also for a removed change that has
\* no file record, which is handed over with its id and removed = true.
C35_EveryChangeDelivered ==
    [][Applies =>
          LET ch == Head(cl.page) IN
          /\ cl'.page = Tail(cl.page)
          /\ IF ch.node = <<>> THEN RemovedHandled(ch)
             ELSE cl'.cs = ChangeStats(cl.cs, ChangeCase(Cache, ch))]_vars

\* C36: no change modifies the cache in two drains.  The counters of a call only
\* grow; a change that is handed to processChange and leaves both counters as
\* they were leaves the nodes, both indices and the inode counter as they
\* were; and a ProcessChanges that fails after the first page is retried (the
\* process goes on, the cursor is unchanged) only when both counters are zero,
\* so that every change handled during the failed call was such a change.
Retried == ListFails /\ ~crashed'

C36_RetryRepeatsNoMutation ==
    /\ [][Applies =>
            /\ cl'.cs.changed >= cl.cs.changed
            /\ cl'.cs.ignored >= cl.cs.ignored
            /\ cl'.cs = cl.cs => Cache' = Cache]_vars
    /\ [][ListFails => (crashed' <=> FetchedChanges(cl.cs))]_vars
    /\ [][Retried => (cl.cs = NoStats /\ pageToken' = pageToken /\ Cache' = Cache)]_vars

\* a call that has handled a change carrying a record without counting it (a
\* trashed file that is not cached), is past its first page and lists the next
C36_Witness ==
    /\ ~crashed
    /\ cl.pc = "list"
    /\ cl.cs = NoStats
    /\ \E i \in (pageToken + 1)..cl.pos : feed[i].node # <<>>


\* ---------------------------------------------------------------------------
\* thread t has called l.Lock() and the call has not returned
Acquires(t, l) == lprog[t] # <<>> /\ Head(lprog[t]) = <<"Lock", l>>

\* thread t holds the meta lock or the children lock of node n
HoldsNode(t, n) == held[NodeMu(n)] = t \/ held[NodeCmu(n)] = t

\* C37: no thread acquires system.mu while it holds the meta lock or the
\* children lock of a node, and no thread acquires the meta lock of a node
\* while it holds the children lock of that node, in a kernel operation or in
\* processChange.
C37_SystemThenMetaThenChildren ==
    \A t \in LThreads :
        /\ Acquires(t, SystemMu) => \A n \in LNodes : ~HoldsNode(t, n)
        /\ \A n \in LNodes : Acquires(t, NodeMu(n)) => held[NodeCmu(n)] # t

\* a thread that holds system.mu and the meta lock of node 2 acquires the
\* children lock of node 1, while another one, past its children locks and
\* holding nothing, acquires system.mu
C37_Witness ==
    \E t, u \in LThreads :
        /\ held[SystemMu] = t /\ held[NodeMu(2)] = t /\ Acquires(t, NodeCmu(1))
        /\ u # t /\ Acquires(u, SystemMu)
        /\ \A l \in Locks : held[l] # u

\* C38: a thread that holds a lock of one node and acquires a lock of another
\* node acquires the lock of the node with the greater kernel handle.
C38_AscendingHandles ==
    \A t \in LThreads : \A n, m \in LNodes :
        (HoldsNode(t, n) /\ m # n /\ (Acquires(t, NodeMu(m)) \/ Acquires(t, NodeCmu(m))))
            => m > n

\* thread t reads or writes the children map of node n
Accessing(t, n) ==
    /\ lprog[t] # <<>>
    /\ Len(Head(lprog[t])) = 3
    /\ Head(lprog[t])[3] = n

\* C39: a thread that reads or writes the children map of a node, the test
\* for a nil map included, holds the children lock of that node.
C39_ChildrenUnderCmu ==
    \A t \in LThreads : \A n \in LNodes : Accessing(t, n) => held[NodeCmu(n)] = t


\* ---------------------------------------------------------------------------
\* thread t returns from openFile.release, which the Release of the last handle calls
LastReleaseReturns(t) == th[t].pc = "abort" /\ th'[t].pc # "abort"

\* C40: the Release of the last handle returns only once no download runs for
\* its openFile, and none runs for a released openFile afterwards; when such a
\* Release answers without an error the temp file is closed and unlinked and the
\* phantom file has no openFile; and under fair scheduling, Download returning
\* once cancelled and Upload returning, a Release that has started returns.
C40_ReleaseWaitsAndReturns ==
    /\ [][\A t \in Threads : LastReleaseReturns(t) =>
            LET o == handles[th[t].h].of IN
            /\ o = pfOf
            /\ Downloading(o) = 0 /\ ofs'[o].mu = Free
            /\ ofs'[o].done
            /\ (th[t].op = "Release" /\ th'[t].ret = "OK") =>
                  (ofs'[o].closed /\ ofs'[o].unlinked /\ pfOf' = 0)]_vars
    /\ [](\A o \in DOMAIN ofs : ofs[o].closed => (Downloading(o) = 0 /\ ofs[o].done))
    /\ \A t \in Threads :
          (th[t].op = "Release" /\ th[t].pc # "ret") ~> (th[t].pc = "ret")

\* the Release of the last handle has answered OK after it waited for a
\* download, which saw the cancelled token
C40_Witness ==
    \E t \in Threads :
        /\ th[t].op = "Release" /\ th[t].pc = "ret" /\ th[t].ret = "OK"
        /\ LET o == handles[th[t].h].of IN
           /\ ofs[o].closed /\ ofs[o].unlinked /\ ofs[o].err = "Canceled"
           /\ ofs[o].downloads = 1
        /\ pfOf = 0

====
